---------------------------- MODULE Spec2Model ----------------------------
(***************************************************************************)
(* The "users" services of Backend-Systems (SyncDB-FastAPI Level1, 2, 3,    *)
(* 5, 6 and AsyncDB-FastAPI Level1, 3, 4, 6) as state machines over one    *)
(* MongoDB collection, db.users.  A behaviour runs one module (`module`)   *)
(* against the collection; each step is one request handled to its         *)
(* response, or, where requests are followed while they overlap, one part  *)
(* of a handler between two calls on the store.  The ItemManager service   *)
(* of API-Development/Part-1 (module "IM") keeps its items in a JSON file  *)
(* and is modelled the same way.                                            *)
(*                                                                          *)
(* Python values: a dict is a function from its keys, so a document or a   *)
(* request body that lacks a key lacks it in DOMAIN.  A pydantic model      *)
(* parsed from a body keeps the model's fields only; an Optional field     *)
(* that is absent or null is None and is dropped by the handlers'          *)
(* `if v is not None` filter, so a parsed update body is the function      *)
(* from the supplied non-null fields.                                       *)
(***************************************************************************)
EXTENDS Integers, Sequences, FiniteSets, TLC

VARIABLES
    module,   \* the module that serves this behaviour: "S6", "A6", ...
    users,    \* db.users: the set of stored documents
    nextId,   \* the next ObjectId the store assigns on insert_one
    tokens,   \* the bearer tokens /login has signed so far
    now,      \* datetime.utcnow(), in minutes
    req,      \* the last request: handler, authenticated caller, user_id, body keys
    resp,     \* its response: status code, response_status, response_data
    issued,   \* history: each token /login signed, with the _id of the record it
              \* was signed for and the role stored for it then ("" for none);
              \* kept in the behaviours whose properties speak of it
    calls,    \* the requests in flight: a handler between two of its steps
    file,     \* ItemManager: the items of Items.json, item_id -> item
    mode      \* ItemManager: what the process may do with Items.json ("r", "w")

vars == <<module, users, nextId, tokens, now, req, resp, issued, calls, file, mode>>

---------------------------------------------------------------------------
(* Bounds of the model *)

\* ObjectIds 1..MaxId are assigned to documents; MaxId + 1 is well-formed
\* and never stored.
MaxId == 2

\* A JSON body sent to an update route supplies at most this many keys.
MaxBodyFields == 1

\* The clock is read in minutes; it is looked at every Advance minutes, up
\* to MaxNow.
Advance == 8
MaxNow == 16

\* At most this many tokens are signed in a run where the clock advances.
MaxTokens == 1

\* The number of requests in flight at once.
MaxCalls == 2

(* Program constants *)

ACCESS_TOKEN_EXPIRE_MINUTES == 30

---------------------------------------------------------------------------
(* Input domains *)

\* The usernames, in the store's string order.
UsernameOrder == <<"alice", "bob">>
Usernames == {UsernameOrder[i] : i \in DOMAIN UsernameOrder}
Ages      == {2}
Passwords == {"secret1"}

RolesIn   == {"user", "admin"}

BodyFields == {"username", "userage", "password", "role"}

FullBodies == [username : Usernames, userage : Ages,
               password : Passwords, role : RolesIn]

\* The dict d without the keys outside D.
Restrict(d, D) == [k \in DOMAIN d \cap D |-> d[k]]

\* JSON bodies sent to the update routes: any choice of at most
\* MaxBodyFields keys.
UpdateBodies ==
    {Restrict(f, D) : f \in FullBodies,
                      D \in {E \in SUBSET BodyFields : Cardinality(E) <= MaxBodyFields}}

\* JSON bodies sent to the create routes: all four keys, all but role, or
\* none (so the required keys are missing).
CreateBodies ==
    {Restrict(f, D) : f \in FullBodies,
                      D \in {BodyFields, BodyFields \ {"role"}, {}}}

\* The passwords tried at /login: the one the records have, and another.
LoginPasswords == Passwords \cup {"wrong00"}

---------------------------------------------------------------------------
(* bson.ObjectId and its string form *)

\* str(ObjectId): the 24-hex-digit form, here "oid" followed by the number.
ObjectIdStr(oid) == "oid" \o ToString(oid)

\* The well-formed identifiers: those of 1..MaxId + 1.
ObjectIds == 1 .. (MaxId + 1)

\* bson.ObjectId.is_valid: ObjectId(s) raises InvalidId when this is false.
IsObjectId(s) == \E n \in ObjectIds : ObjectIdStr(n) = s

\* ObjectId(s) for a well-formed s.
ObjectId(s) == CHOOSE n \in ObjectIds : ObjectIdStr(n) = s

\* The user_id path parameters a caller sends: every well-formed
\* identifier, and one string that is not an ObjectId.
UserIds == {ObjectIdStr(n) : n \in ObjectIds} \cup {"me"}

---------------------------------------------------------------------------
(* The store: pymongo / motor calls on db.users *)

\* find_one({"_id": oid}) and find({"_id": oid}): the matching documents.
find_by_id(U, oid) == {u \in U : u._id = oid}

\* find_one({"username": name}): the matching documents.  find_one returns
\* the first in natural order, which the store does not promise to be the
\* insertion order, so a caller of this takes any one of them.
find_by_username(U, name) == {u \in U : u.username = name}

\* insert_one(doc): the store assigns _id.
insert_one(U, doc, oid) ==
    U \cup {[k \in DOMAIN doc \cup {"_id"} |-> IF k = "_id" THEN oid ELSE doc[k]]}

\* A write that replaces the document: the fields of upd, and every other
\* field but _id back at its default (0 here, userage being the one field
\* a one-field update of the username leaves out that has a number).
SetFields_replacing(u, upd) ==
    [k \in DOMAIN u \cup DOMAIN upd |->
        IF k \in DOMAIN upd THEN upd[k] ELSE IF k = "userage" THEN 0 ELSE u[k]]

\* The document u after {"$set": upd}.
SetFields(u, upd) ==
    [k \in DOMAIN u \cup DOMAIN upd |-> IF k \in DOMAIN upd THEN upd[k] ELSE u[k]]

\* update_one({"_id": oid}, {"$set": upd}).
update_one(U, oid, upd) ==
    {IF u._id = oid THEN SetFields(u, upd) ELSE u : u \in U}

\* result.matched_count of update_one, result.deleted_count of delete_one.
matched_count(U, oid) == Cardinality(find_by_id(U, oid))

\* delete_one({"_id": oid}).
delete_one(U, oid) == {u \in U : u._id # oid}

---------------------------------------------------------------------------
(* passlib bcrypt and python-jose JWT *)

\* pwd_context.hash: a bcrypt string, never the plaintext.
hash_password(password) == "$2b$" \o password

\* pwd_context.verify.
verify_password(plain_password, hashed_password) ==
    hashed_password = "$2b$" \o plain_password

\* No Authorization header.
NoToken == [sig |-> "absent"]

\* create_access_token: the claims of data plus exp, signed with SECRET_KEY.
\* expires_delta is in minutes, 0 for None and for timedelta(0): both are
\* falsy, so `expires_delta or default` takes the default for either.
create_access_token(data, expires_delta, default_delta) ==
    [k \in DOMAIN data \cup {"sig", "exp"} |->
        CASE k = "sig" -> "ok"
          [] k = "exp" -> now + (IF expires_delta # 0 THEN expires_delta ELSE default_delta)
          [] OTHER     -> data[k]]

\* jwt.decode succeeds: the token was signed by this service and is not
\* expired (python-jose rejects exp < now).
jwt_decode_ok(token) ==
    /\ token \in tokens
    /\ token.sig = "ok"
    /\ ~(token.exp < now)

\* The bearer tokens a caller can present.
Bearers == tokens \cup {NoToken}

---------------------------------------------------------------------------
(* Requests and responses *)

\* The request a step handles: its handler, the _id (as a string) of the
\* user its bearer token authenticated ("" when none did), the user_id path
\* parameter ("" when the route has none) and the keys of its JSON body.
Request(handler, caller, user_id, body) ==
    [handler |-> handler, caller |-> caller, user_id |-> user_id, fields |-> DOMAIN body]

\* The response: the HTTP status, ResponseModel.response_status, and the
\* dicts of the body: the user dicts of response_data (none, one, or a
\* list's), or the claims of the access_token /login returns, which anyone
\* holding the token can read.
Response(status, response_status, data) ==
    [status |-> status, response_status |-> response_status, data |-> data]

\* raise HTTPException(status_code): no ResponseModel is built.
HTTPException(status) == Response(status, FALSE, {})

\* FastAPI's RequestValidationError for a body the pydantic model rejects.
RequestValidationError == Response(422, FALSE, {})

---------------------------------------------------------------------------
(* Cursors: find(query).sort(sort_by, direction).skip(skip).limit(limit) *)

\* sort_by values sent to the list routes, and the paging values.
SortFields == {"username", "userage"}
Skips  == {0, 1}
Limits == {1, 10}

\* The username filters sent to the list routes ("" for none: `if username`
\* is false for None and for the empty string), and the age filters, each
\* the set of the values given (empty for None).
NameFilters == {"", "ob"}
AgeFilters  == {{}, {2}}

\* The strings around a filter inside a username.
Affixes == {"", "b"}

\* {"$regex": pattern, "$options": "i"} matches name: pattern occurs in it
\* (the names and patterns here are lower case and free of metacharacters).
regex_i(pattern, name) == \E pre \in Affixes, post \in Affixes : pre \o pattern \o post = name

\* find({"username": {"$regex": username, "$options": "i"}}) when username
\* is truthy, find({}) otherwise.
find_username(U, username) ==
    IF username = "" THEN U ELSE {u \in U : regex_i(username, u.username)}

\* find({"userage": a}) for the a of userage, find({}) when userage is None.
find_userage(U, userage) == {u \in U : \A a \in userage : u.userage = a}

\* find({"userage": {"$gte": min_age, "$lte": max_age}}), each bound present
\* when it is not None.
find_age_range(U, min_age, max_age) ==
    {u \in U : /\ \A a \in min_age : u.userage >= a
               /\ \A a \in max_age : u.userage <= a}

\* The sequences that list every document of U once.
Orderings(U) ==
    {s \in [1 .. Cardinality(U) -> U] : \A i, j \in DOMAIN s : i # j => s[i] # s[j]}

\* The place of a username in the store's string order.
StrRank(name) == CHOOSE i \in DOMAIN UsernameOrder : UsernameOrder[i] = name

\* The sort key of u as a number; a field no document has gives every
\* document the same key (null).
SortKey(u, sort_by) ==
    CASE sort_by = "username" -> StrRank(u.username)
      [] sort_by = "userage"  -> u.userage
      [] sort_by = "_id"      -> u._id
      [] OTHER                -> 0

\* u comes strictly before v under sort(sort_by, direction).
SortsBefore(u, v, sort_by, direction) ==
    IF direction = 1 THEN SortKey(u, sort_by) < SortKey(v, sort_by)
                     ELSE SortKey(v, sort_by) < SortKey(u, sort_by)

\* The orders in which the store may return U sorted: documents with equal
\* keys come in any order.
SortedCursors(U, sort_by, direction) ==
    {s \in Orderings(U) :
        \A i, j \in DOMAIN s : i < j => ~SortsBefore(s[j], s[i], sort_by, direction)}

\* cursor.skip(skip) raises ValueError for a negative skip.
skip_raises(skip) == skip < 0

\* cursor.skip(skip).limit(limit), as the set of documents left: a limit of
\* 0 is no limit, and a negative limit is sent as its absolute value.
Page(s, skip, limit) ==
    {s[i] : i \in {j \in DOMAIN s :
                     /\ skip < j
                     /\ limit = 0 \/ j <= skip + (IF limit < 0 THEN 0 - limit ELSE limit)}}

---------------------------------------------------------------------------
(* SyncDB-FastAPI/Level1.py *)

\* UserCreateModel: username and userage are required.
S1_UserCreateModel_ok(body) == {"username", "userage"} \subseteq DOMAIN body

\* update_data of update_user: the supplied fields of UserUpdateModel.
S1_update_data(body) == Restrict(body, {"username", "userage"})

\* The inline `user["_id"] = str(user["_id"])` of the read handlers.
S1_str_id(user) ==
    [k \in DOMAIN user |-> IF k = "_id" THEN ObjectIdStr(user._id) ELSE user[k]]

\* GET /users/
S1_read_all_users ==
    /\ module = "S1"
    /\ req' = Request("read_all_users", "", "", <<>>)
    /\ resp' = Response(200, TRUE, {S1_str_id(u) : u \in users})
    /\ UNCHANGED <<module, users, nextId, tokens, now, issued, calls, file, mode>>

\* GET /users/{user_id}: ObjectId(user_id) is not guarded, and neither is
\* the None that find_one returns; either raises, which is a 500.
S1_read_each_user(user_id) ==
    /\ module = "S1"
    /\ req' = Request("read_each_user", "", user_id, <<>>)
    /\ resp' = IF ~IsObjectId(user_id) THEN HTTPException(500)
               ELSE IF find_by_id(users, ObjectId(user_id)) = {} THEN HTTPException(500)
               ELSE Response(200, TRUE,
                        {S1_str_id(u) : u \in find_by_id(users, ObjectId(user_id))})
    /\ UNCHANGED <<module, users, nextId, tokens, now, issued, calls, file, mode>>

\* POST /users/create
S1_create_item(body) ==
    /\ module = "S1"
    /\ req' = Request("create_user", "", "", body)
    /\ IF ~S1_UserCreateModel_ok(body)
       THEN resp' = RequestValidationError /\ UNCHANGED <<users, nextId>>
       ELSE /\ nextId <= MaxId
            /\ users' = insert_one(users,
                           [username |-> body.username, userage |-> body.userage], nextId)
            /\ nextId' = nextId + 1
            /\ resp' = Response(201, TRUE, {})
    /\ UNCHANGED <<module, tokens, now, issued, calls, file, mode>>

\* DELETE /users/{user_id}: the result of delete_one is not looked at.
S1_delete_item(user_id) ==
    /\ module = "S1"
    /\ req' = Request("delete_user", "", user_id, <<>>)
    /\ IF ~IsObjectId(user_id)
       THEN resp' = HTTPException(500) /\ UNCHANGED users
       ELSE /\ users' = delete_one(users, ObjectId(user_id))
            /\ resp' = Response(200, TRUE, {})
    /\ UNCHANGED <<module, nextId, tokens, now, issued, calls, file, mode>>

\* PUT /{user_id}: matched_count is not looked at, and the document found
\* afterwards goes into the response with its ObjectId, which the response
\* encoder cannot serialize (500, after the write).
S1_update_user(user_id, body) ==
    /\ module = "S1"
    /\ req' = Request("update_user", "", user_id, body)
    /\ IF S1_update_data(body) = <<>>
       THEN resp' = Response(200, FALSE, {}) /\ UNCHANGED users
       ELSE IF ~IsObjectId(user_id)
       THEN resp' = HTTPException(500) /\ UNCHANGED users
       ELSE /\ users' = update_one(users, ObjectId(user_id), S1_update_data(body))
            /\ resp' = IF find_by_id(users', ObjectId(user_id)) = {}
                       THEN Response(200, TRUE, {})
                       ELSE HTTPException(500)
    /\ UNCHANGED <<module, nextId, tokens, now, issued, calls, file, mode>>

S1_Next ==
    \/ S1_read_all_users
    \/ \E user_id \in UserIds : S1_read_each_user(user_id)
    \/ \E body \in CreateBodies : S1_create_item(body)
    \/ \E user_id \in UserIds : S1_delete_item(user_id)
    \/ \E user_id \in UserIds, body \in UpdateBodies : S1_update_user(user_id, body)

---------------------------------------------------------------------------
(* SyncDB-FastAPI/Level2.py *)

\* serialize_user: _id as a string.
S2_serialize_user(user) ==
    [k \in DOMAIN user |-> IF k = "_id" THEN ObjectIdStr(user._id) ELSE user[k]]

\* UserCreateModel: username and userage are required.
S2_UserCreateModel_ok(body) == {"username", "userage"} \subseteq DOMAIN body

\* update_data of update_user: the supplied fields of UserUpdateModel.
S2_update_data(body) == Restrict(body, {"username", "userage"})

\* GET /users/
S2_read_all_users ==
    /\ module = "S2"
    /\ req' = Request("read_all_users", "", "", <<>>)
    /\ resp' = Response(200, TRUE, {S2_serialize_user(u) : u \in users})
    /\ UNCHANGED <<module, users, nextId, tokens, now, issued, calls, file, mode>>

\* GET /users/{user_id}
S2_read_each_user(user_id) ==
    /\ module = "S2"
    /\ req' = Request("read_each_user", "", user_id, <<>>)
    /\ resp' = IF ~IsObjectId(user_id) THEN HTTPException(400)
               ELSE IF find_by_id(users, ObjectId(user_id)) = {} THEN HTTPException(404)
               ELSE Response(200, TRUE,
                        {S2_serialize_user(u) : u \in find_by_id(users, ObjectId(user_id))})
    /\ UNCHANGED <<module, users, nextId, tokens, now, issued, calls, file, mode>>

\* POST /users/create
S2_create_item(body) ==
    /\ module = "S2"
    /\ req' = Request("create_user", "", "", body)
    /\ IF ~S2_UserCreateModel_ok(body)
       THEN resp' = RequestValidationError /\ UNCHANGED <<users, nextId>>
       ELSE /\ nextId <= MaxId
            /\ users' = insert_one(users,
                           [username |-> body.username, userage |-> body.userage], nextId)
            /\ nextId' = nextId + 1
            /\ resp' = Response(201, TRUE,
                          {[username |-> body.username, userage |-> body.userage,
                            _id |-> ObjectIdStr(nextId)]})
    /\ UNCHANGED <<module, tokens, now, issued, calls, file, mode>>

\* PUT /users/{user_id}
S2_update_user(user_id, body) ==
    /\ module = "S2"
    /\ req' = Request("update_user", "", user_id, body)
    /\ IF ~IsObjectId(user_id)
       THEN resp' = HTTPException(400) /\ UNCHANGED users
       ELSE IF S2_update_data(body) = <<>>
       THEN resp' = Response(200, FALSE, {}) /\ UNCHANGED users
       ELSE IF matched_count(users, ObjectId(user_id)) = 0
       THEN resp' = HTTPException(404) /\ UNCHANGED users
       ELSE /\ users' = update_one(users, ObjectId(user_id), S2_update_data(body))
            /\ resp' = Response(200, TRUE,
                          {S2_serialize_user(u) : u \in find_by_id(users', ObjectId(user_id))})
    /\ UNCHANGED <<module, nextId, tokens, now, issued, calls, file, mode>>

\* DELETE /users/{user_id}
S2_delete_item(user_id) ==
    /\ module = "S2"
    /\ req' = Request("delete_user", "", user_id, <<>>)
    /\ IF ~IsObjectId(user_id)
       THEN resp' = HTTPException(400) /\ UNCHANGED users
       ELSE IF matched_count(users, ObjectId(user_id)) = 0
       THEN resp' = HTTPException(404) /\ UNCHANGED users
       ELSE /\ users' = delete_one(users, ObjectId(user_id))
            /\ resp' = Response(200, TRUE, {})
    /\ UNCHANGED <<module, nextId, tokens, now, issued, calls, file, mode>>

S2_Next ==
    \/ S2_read_all_users
    \/ \E user_id \in UserIds : S2_read_each_user(user_id)
    \/ \E body \in CreateBodies : S2_create_item(body)
    \/ \E user_id \in UserIds, body \in UpdateBodies : S2_update_user(user_id, body)
    \/ \E user_id \in UserIds : S2_delete_item(user_id)

---------------------------------------------------------------------------
(* SyncDB-FastAPI/Level3.py *)

\* serialize_user: _id as a string.
S3_serialize_user(user) ==
    [k \in DOMAIN user |-> IF k = "_id" THEN ObjectIdStr(user._id) ELSE user[k]]

\* validate_object_id passes: ObjectId(id_str) does not raise.
S3_validate_object_id(id_str) == IsObjectId(id_str)

\* UserCreateModel: the required fields are present and the validators pass.
S3_UserCreateModel_ok(body) ==
    /\ {"username", "userage"} \subseteq DOMAIN body
    /\ ~(Len(body.username) < 3)
    /\ ~(body.userage <= 0)

\* UserUpdateModel: every supplied field passes its validator.
S3_UserUpdateModel_ok(body) ==
    /\ "username" \in DOMAIN body => ~(Len(body.username) < 3)
    /\ "userage" \in DOMAIN body => ~(body.userage <= 0)

\* update_data of update_user: the supplied fields of UserUpdateModel.
S3_update_data(body) == Restrict(body, {"username", "userage"})

\* GET /users/: the page of the sorted cursor over the filtered documents.
S3_read_all_users(username, userage, limit, skip, sort_by, sort_order) ==
    /\ module = "S3"
    /\ req' = Request("read_all_users", "", "", <<>>)
    /\ IF skip_raises(skip)
       THEN resp' = HTTPException(500)
       ELSE \E cursor \in SortedCursors(
                             find_userage(find_username(users, username), userage),
                             sort_by, sort_order) :
               resp' = Response(200, TRUE,
                          {S3_serialize_user(u) : u \in Page(cursor, skip, limit)})
    /\ UNCHANGED <<module, users, nextId, tokens, now, issued, calls, file, mode>>

\* GET /users/{user_id}
S3_read_each_user(user_id) ==
    /\ module = "S3"
    /\ req' = Request("read_each_user", "", user_id, <<>>)
    /\ resp' = IF ~S3_validate_object_id(user_id) THEN HTTPException(400)
               ELSE IF find_by_id(users, ObjectId(user_id)) = {} THEN HTTPException(404)
               ELSE Response(200, TRUE,
                        {S3_serialize_user(u) : u \in find_by_id(users, ObjectId(user_id))})
    /\ UNCHANGED <<module, users, nextId, tokens, now, issued, calls, file, mode>>

\* POST /users/create
S3_create_user(body) ==
    /\ module = "S3"
    /\ req' = Request("create_user", "", "", body)
    /\ IF ~S3_UserCreateModel_ok(body)
       THEN resp' = RequestValidationError /\ UNCHANGED <<users, nextId>>
       ELSE /\ nextId <= MaxId
            /\ users' = insert_one(users,
                           [username |-> body.username, userage |-> body.userage], nextId)
            /\ nextId' = nextId + 1
            /\ resp' = Response(201, TRUE,
                          {[username |-> body.username, userage |-> body.userage,
                            _id |-> ObjectIdStr(nextId)]})
    /\ UNCHANGED <<module, tokens, now, issued, calls, file, mode>>

\* PUT /users/{user_id}
S3_update_user(user_id, body) ==
    /\ module = "S3"
    /\ req' = Request("update_user", "", user_id, body)
    /\ IF ~S3_UserUpdateModel_ok(body)
       THEN resp' = RequestValidationError /\ UNCHANGED users
       ELSE IF ~S3_validate_object_id(user_id)
       THEN resp' = HTTPException(400) /\ UNCHANGED users
       ELSE IF S3_update_data(body) = <<>>
       THEN resp' = Response(200, FALSE, {}) /\ UNCHANGED users
       ELSE IF matched_count(users, ObjectId(user_id)) = 0
       THEN resp' = HTTPException(404) /\ UNCHANGED users
       ELSE /\ users' = update_one(users, ObjectId(user_id), S3_update_data(body))
            /\ resp' = Response(200, TRUE,
                          {S3_serialize_user(u) : u \in find_by_id(users', ObjectId(user_id))})
    /\ UNCHANGED <<module, nextId, tokens, now, issued, calls, file, mode>>

\* DELETE /users/{user_id}
S3_delete_user(user_id) ==
    /\ module = "S3"
    /\ req' = Request("delete_user", "", user_id, <<>>)
    /\ IF ~S3_validate_object_id(user_id)
       THEN resp' = HTTPException(400) /\ UNCHANGED users
       ELSE IF matched_count(users, ObjectId(user_id)) = 0
       THEN resp' = HTTPException(404) /\ UNCHANGED users
       ELSE /\ users' = delete_one(users, ObjectId(user_id))
            /\ resp' = Response(200, TRUE, {})
    /\ UNCHANGED <<module, nextId, tokens, now, issued, calls, file, mode>>

S3_Next ==
    \/ \E username \in NameFilters, userage \in AgeFilters, limit \in Limits, skip \in Skips,
          sort_by \in SortFields, sort_order \in {1, -1} :
          S3_read_all_users(username, userage, limit, skip, sort_by, sort_order)
    \/ \E user_id \in UserIds : S3_read_each_user(user_id)
    \/ \E body \in CreateBodies : S3_create_user(body)
    \/ \E user_id \in UserIds, body \in UpdateBodies : S3_update_user(user_id, body)
    \/ \E user_id \in UserIds : S3_delete_user(user_id)

---------------------------------------------------------------------------
(* SyncDB-FastAPI/Level5.py *)

\* serialize_user: _id as a string, password removed.
S5_serialize_user(user) ==
    [k \in DOMAIN user \ {"password"} |->
        IF k = "_id" THEN ObjectIdStr(user._id) ELSE user[k]]

\* validate_object_id passes: ObjectId(id_str) does not raise.
S5_validate_object_id(id_str) == IsObjectId(id_str)

\* UserCreateModel: the required fields are present and the validators pass.
S5_UserCreateModel_ok(body) ==
    /\ {"username", "userage", "password"} \subseteq DOMAIN body
    /\ ~(Len(body.username) < 3)
    /\ ~(body.userage <= 0)
    /\ ~(Len(body.password) < 6)

\* UserUpdateModel: every supplied field passes its validator.
S5_UserUpdateModel_ok(body) ==
    /\ "username" \in DOMAIN body => ~(Len(body.username) < 3)
    /\ "userage" \in DOMAIN body => ~(body.userage <= 0)
    /\ "password" \in DOMAIN body => ~(Len(body.password) < 6)

\* update_data of update_user: the supplied fields of UserUpdateModel, the
\* password hashed.
S5_update_data(body) ==
    [k \in DOMAIN body \cap {"username", "userage", "password"} |->
        IF k = "password" THEN hash_password(body[k]) ELSE body[k]]

\* verify_token: the token decodes and has a "sub".
S5_verify_token_ok(token) == jwt_decode_ok(token) /\ "sub" \in DOMAIN token

\* A get_current_user that takes every request for an authenticated one.
S5_get_current_user_open(token) == {[_id |-> "oid0", username |-> "anonymous"]}

\* get_current_user: the users it may return; none means 401.
S5_get_current_user(token) ==
    IF ~S5_verify_token_ok(token) THEN {}
    ELSE {S5_serialize_user(u) : u \in find_by_username(users, token.sub)}

\* POST /login; `record` says whether the behaviour keeps the history of
\* signed tokens (`issued`), which no handler reads.
S5_login_signed(username, password, record) ==
    /\ module = "S5"
    /\ req' = Request("login", "", "", <<>>)
    /\ IF find_by_username(users, username) = {}
       THEN resp' = HTTPException(401) /\ UNCHANGED <<tokens, issued>>
       ELSE \E user \in find_by_username(users, username) :
            IF ~verify_password(password, user.password)
            THEN resp' = HTTPException(401) /\ UNCHANGED <<tokens, issued>>
            ELSE LET access_token == create_access_token([sub |-> username], 0,
                                                         ACCESS_TOKEN_EXPIRE_MINUTES)
                 IN /\ tokens' = tokens \cup {access_token}
                    /\ issued' = IF record
                                 THEN issued \cup {<<access_token, user._id, "">>}
                                 ELSE issued
                    /\ resp' = Response(200, TRUE, {access_token})
    /\ UNCHANGED <<module, users, nextId, now, calls, file, mode>>

S5_login(username, password) == S5_login_signed(username, password, FALSE)

\* GET /users/ (public): the page of the sorted cursor over the filtered
\* documents.
S5_read_all_users(username, userage, limit, skip, sort_by, sort_order) ==
    /\ module = "S5"
    /\ req' = Request("read_all_users", "", "", <<>>)
    /\ IF skip_raises(skip)
       THEN resp' = HTTPException(500)
       ELSE \E cursor \in SortedCursors(
                             find_userage(find_username(users, username), userage),
                             sort_by, sort_order) :
               resp' = Response(200, TRUE,
                          {S5_serialize_user(u) : u \in Page(cursor, skip, limit)})
    /\ UNCHANGED <<module, users, nextId, tokens, now, issued, calls, file, mode>>

\* GET /users/{user_id} (public)
S5_read_each_user(user_id) ==
    /\ module = "S5"
    /\ req' = Request("read_each_user", "", user_id, <<>>)
    /\ resp' = IF ~S5_validate_object_id(user_id) THEN HTTPException(400)
               ELSE IF find_by_id(users, ObjectId(user_id)) = {} THEN HTTPException(404)
               ELSE Response(200, TRUE,
                        {S5_serialize_user(u) : u \in find_by_id(users, ObjectId(user_id))})
    /\ UNCHANGED <<module, users, nextId, tokens, now, issued, calls, file, mode>>

\* A create_user without the lookup of the username.
S5_username_exists_unchecked(username) == FALSE

\* The `if db.users.find_one({"username": body.username})` of create_user.
S5_username_exists(username) == find_by_username(users, username) # {}

\* POST /users/create (Depends(get_current_user))
S5_create_user(token, body) ==
    /\ module = "S5"
    /\ IF S5_get_current_user(token) = {}
       THEN /\ req' = Request("create_user", "", "", body)
            /\ resp' = HTTPException(401) /\ UNCHANGED <<users, nextId>>
       ELSE \E current_user \in S5_get_current_user(token) :
            /\ req' = Request("create_user", current_user._id, "", body)
            /\ IF ~S5_UserCreateModel_ok(body)
               THEN resp' = RequestValidationError /\ UNCHANGED <<users, nextId>>
               ELSE IF S5_username_exists(body.username)
               THEN resp' = HTTPException(400) /\ UNCHANGED <<users, nextId>>
               ELSE LET user == [username |-> body.username,
                                 userage  |-> body.userage,
                                 password |-> hash_password(body.password)]
                    IN /\ nextId <= MaxId
                       /\ users' = insert_one(users, user, nextId)
                       /\ nextId' = nextId + 1
                       /\ resp' = Response(201, TRUE,
                             {[k \in (DOMAIN user \cup {"_id"}) \ {"password"} |->
                                 IF k = "_id" THEN ObjectIdStr(nextId) ELSE user[k]]})
    /\ UNCHANGED <<module, tokens, now, issued, calls, file, mode>>

\* PUT /users/{user_id} (Depends(get_current_user))
S5_update_user(token, user_id, body) ==
    /\ module = "S5"
    /\ IF S5_get_current_user(token) = {}
       THEN /\ req' = Request("update_user", "", user_id, body)
            /\ resp' = HTTPException(401) /\ UNCHANGED users
       ELSE \E current_user \in S5_get_current_user(token) :
            /\ req' = Request("update_user", current_user._id, user_id, body)
            /\ IF ~S5_UserUpdateModel_ok(body)
               THEN resp' = RequestValidationError /\ UNCHANGED users
               ELSE IF ~S5_validate_object_id(user_id)
               THEN resp' = HTTPException(400) /\ UNCHANGED users
               ELSE IF S5_update_data(body) = <<>>
               THEN resp' = Response(200, FALSE, {}) /\ UNCHANGED users
               ELSE IF matched_count(users, ObjectId(user_id)) = 0
               THEN resp' = HTTPException(404) /\ UNCHANGED users
               ELSE /\ users' = update_one(users, ObjectId(user_id), S5_update_data(body))
                    /\ resp' = Response(200, TRUE,
                          {S5_serialize_user(u) : u \in find_by_id(users', ObjectId(user_id))})
    /\ UNCHANGED <<module, nextId, tokens, now, issued, calls, file, mode>>

\* DELETE /users/{user_id} (Depends(get_current_user))
S5_delete_user(token, user_id) ==
    /\ module = "S5"
    /\ IF S5_get_current_user(token) = {}
       THEN /\ req' = Request("delete_user", "", user_id, <<>>)
            /\ resp' = HTTPException(401) /\ UNCHANGED users
       ELSE \E current_user \in S5_get_current_user(token) :
            /\ req' = Request("delete_user", current_user._id, user_id, <<>>)
            /\ IF ~S5_validate_object_id(user_id)
               THEN resp' = HTTPException(400) /\ UNCHANGED users
               ELSE IF matched_count(users, ObjectId(user_id)) = 0
               THEN resp' = HTTPException(404) /\ UNCHANGED users
               ELSE /\ users' = delete_one(users, ObjectId(user_id))
                    /\ resp' = Response(200, TRUE, {})
    /\ UNCHANGED <<module, nextId, tokens, now, issued, calls, file, mode>>

S5_Next ==
    \/ \E username \in Usernames, password \in LoginPasswords :
          S5_login(username, password)
    \/ \E username \in NameFilters, userage \in AgeFilters, limit \in Limits, skip \in Skips,
          sort_by \in SortFields, sort_order \in {1, -1} :
          S5_read_all_users(username, userage, limit, skip, sort_by, sort_order)
    \/ \E user_id \in UserIds : S5_read_each_user(user_id)
    \/ \E token \in Bearers, body \in CreateBodies : S5_create_user(token, body)
    \/ \E token \in Bearers, user_id \in UserIds, body \in UpdateBodies :
          S5_update_user(token, user_id, body)
    \/ \E token \in Bearers, user_id \in UserIds : S5_delete_user(token, user_id)

---------------------------------------------------------------------------
(* SyncDB-FastAPI/Level6.py *)

\* A serialize_user without the user.pop("password", None).
S6_serialize_user_unpopped(user) ==
    [k \in DOMAIN user |-> IF k = "_id" THEN ObjectIdStr(user._id) ELSE user[k]]

\* serialize_user: _id as a string, password removed.
S6_serialize_user(user) ==
    [k \in DOMAIN user \ {"password"} |->
        IF k = "_id" THEN ObjectIdStr(user._id) ELSE user[k]]

\* UserCreateModel: the required fields are present and every validator
\* passes (role is validated only when supplied).
S6_UserCreateModel_ok(body) ==
    /\ {"username", "userage", "password"} \subseteq DOMAIN body
    /\ ~(Len(body.username) < 3)
    /\ ~(body.userage <= 0)
    /\ ~(Len(body.password) < 6)
    /\ "role" \in DOMAIN body => body.role \in {"user", "admin"}

\* UserCreateModel.role: Optional[str] = "user".
S6_create_role(body) == IF "role" \in DOMAIN body THEN body.role ELSE "user"

\* UserUpdateModel: every supplied field passes its validator.
S6_UserUpdateModel_ok(body) ==
    /\ "username" \in DOMAIN body => ~(Len(body.username) < 3)
    /\ "userage" \in DOMAIN body => ~(body.userage <= 0)
    /\ "password" \in DOMAIN body => ~(Len(body.password) < 6)
    /\ "role" \in DOMAIN body => body.role \in {"user", "admin"}

\* update_data of update_user and update_self: the supplied fields of
\* UserUpdateModel, the password hashed.
S6_update_data(body) ==
    [k \in DOMAIN body \cap {"username", "userage", "password", "role"} |->
        IF k = "password" THEN hash_password(body[k]) ELSE body[k]]

\* verify_token: the token decodes and has a "sub".
S6_verify_token_ok(token) == jwt_decode_ok(token) /\ "sub" \in DOMAIN token

\* get_current_user: the users it may return; none means 401.
S6_get_current_user(token) ==
    IF ~S6_verify_token_ok(token) THEN {}
    ELSE {S6_serialize_user(u) : u \in find_by_username(users, token.sub)}

\* An admin_required that lets every authenticated user pass.
S6_admin_required_any(current_user) == TRUE

\* admin_required passes.
S6_admin_required(current_user) ==
    "role" \in DOMAIN current_user /\ current_user.role = "admin"

\* POST /login; `record` says whether the behaviour keeps the history of
\* signed tokens (`issued`), which no handler reads.
S6_login_signed(username, password, record) ==
    /\ module = "S6"
    /\ req' = Request("login", "", "", <<>>)
    /\ IF find_by_username(users, username) = {}
       THEN resp' = HTTPException(401) /\ UNCHANGED <<tokens, issued>>
       ELSE \E user \in find_by_username(users, username) :
            IF ~verify_password(password, user.password)
            THEN resp' = HTTPException(401) /\ UNCHANGED <<tokens, issued>>
            ELSE LET access_token == create_access_token([sub |-> username], 0,
                                                         ACCESS_TOKEN_EXPIRE_MINUTES)
                 IN /\ tokens' = tokens \cup {access_token}
                    /\ issued' = IF record
                                 THEN issued \cup {<<access_token, user._id, user.role>>}
                                 ELSE issued
                    /\ resp' = Response(200, TRUE, {access_token})
    /\ UNCHANGED <<module, users, nextId, now, calls, file, mode>>

S6_login(username, password) == S6_login_signed(username, password, FALSE)

\* What read_all_users answers: the page of the sorted cursor.
S6_read_all_users_response(username, userage, limit, skip, sort_by, sort_order) ==
    IF skip_raises(skip)
    THEN resp' = HTTPException(500)
    ELSE \E cursor \in SortedCursors(
                          find_userage(find_username(users, username), userage),
                          sort_by, sort_order) :
            resp' = Response(200, TRUE,
                       {S6_serialize_user(u) : u \in Page(cursor, skip, limit)})

\* GET /users/ (public)
S6_read_all_users(username, userage, limit, skip, sort_by, sort_order) ==
    /\ module = "S6"
    /\ req' = Request("read_all_users", "", "", <<>>)
    /\ S6_read_all_users_response(username, userage, limit, skip, sort_by, sort_order)
    /\ UNCHANGED <<module, users, nextId, tokens, now, issued, calls, file, mode>>

\* GET /users/{user_id} (public)
S6_read_each_user(user_id) ==
    /\ module = "S6"
    /\ req' = Request("read_each_user", "", user_id, <<>>)
    /\ resp' = IF ~IsObjectId(user_id) THEN HTTPException(400)
               ELSE IF find_by_id(users, ObjectId(user_id)) = {} THEN HTTPException(404)
               ELSE Response(200, TRUE,
                        {S6_serialize_user(u) : u \in find_by_id(users, ObjectId(user_id))})
    /\ UNCHANGED <<module, users, nextId, tokens, now, issued, calls, file, mode>>

\* The `if db.users.find_one({"username": body.username})` of create_user.
S6_username_exists(username) == find_by_username(users, username) # {}

\* POST /users/create (Depends(admin_required))
S6_create_user(token, body) ==
    /\ module = "S6"
    /\ IF S6_get_current_user(token) = {}
       THEN /\ req' = Request("create_user", "", "", body)
            /\ resp' = HTTPException(401) /\ UNCHANGED <<users, nextId>>
       ELSE \E current_user \in S6_get_current_user(token) :
            /\ req' = Request("create_user", current_user._id, "", body)
            /\ IF ~S6_admin_required(current_user)
               THEN resp' = HTTPException(403) /\ UNCHANGED <<users, nextId>>
               ELSE IF ~S6_UserCreateModel_ok(body)
               THEN resp' = RequestValidationError /\ UNCHANGED <<users, nextId>>
               ELSE IF S6_username_exists(body.username)
               THEN resp' = HTTPException(400) /\ UNCHANGED <<users, nextId>>
               ELSE LET user == [username |-> body.username,
                                 userage  |-> body.userage,
                                 password |-> hash_password(body.password),
                                 role     |-> S6_create_role(body)]
                    IN /\ nextId <= MaxId
                       /\ users' = insert_one(users, user, nextId)
                       /\ nextId' = nextId + 1
                       /\ resp' = Response(201, TRUE,
                             {[k \in (DOMAIN user \cup {"_id"}) \ {"password"} |->
                                 IF k = "_id" THEN ObjectIdStr(nextId) ELSE user[k]]})
    /\ UNCHANGED <<module, tokens, now, issued, calls, file, mode>>

\* PUT /users/{user_id} (Depends(admin_required))
S6_update_user(token, user_id, body) ==
    /\ module = "S6"
    /\ IF S6_get_current_user(token) = {}
       THEN /\ req' = Request("update_user", "", user_id, body)
            /\ resp' = HTTPException(401) /\ UNCHANGED users
       ELSE \E current_user \in S6_get_current_user(token) :
            /\ req' = Request("update_user", current_user._id, user_id, body)
            /\ IF ~S6_admin_required(current_user)
               THEN resp' = HTTPException(403) /\ UNCHANGED users
               ELSE IF ~S6_UserUpdateModel_ok(body)
               THEN resp' = RequestValidationError /\ UNCHANGED users
               ELSE IF ~IsObjectId(user_id)
               THEN resp' = HTTPException(400) /\ UNCHANGED users
               ELSE IF S6_update_data(body) = <<>>
               THEN resp' = Response(200, FALSE, {}) /\ UNCHANGED users
               ELSE IF matched_count(users, ObjectId(user_id)) = 0
               THEN resp' = HTTPException(404) /\ UNCHANGED users
               ELSE /\ users' = update_one(users, ObjectId(user_id), S6_update_data(body))
                    /\ resp' = Response(200, TRUE,
                          {S6_serialize_user(u) : u \in find_by_id(users', ObjectId(user_id))})
    /\ UNCHANGED <<module, nextId, tokens, now, issued, calls, file, mode>>

\* A delete_user that runs delete_one before it looks at the caller's role.
S6_delete_user_unguarded(token, user_id) ==
    /\ module = "S6"
    /\ IF S6_get_current_user(token) = {}
       THEN /\ req' = Request("delete_user", "", user_id, <<>>)
            /\ resp' = HTTPException(401) /\ UNCHANGED users
       ELSE \E current_user \in S6_get_current_user(token) :
            /\ req' = Request("delete_user", current_user._id, user_id, <<>>)
            /\ IF ~IsObjectId(user_id)
               THEN resp' = HTTPException(400) /\ UNCHANGED users
               ELSE /\ users' = delete_one(users, ObjectId(user_id))
                    /\ resp' = IF ~S6_admin_required(current_user) THEN HTTPException(403)
                               ELSE IF matched_count(users, ObjectId(user_id)) = 0
                               THEN HTTPException(404)
                               ELSE Response(200, TRUE, {})
    /\ UNCHANGED <<module, nextId, tokens, now, issued, calls, file, mode>>

\* DELETE /users/{user_id} (Depends(admin_required))
S6_delete_user(token, user_id) ==
    /\ module = "S6"
    /\ IF S6_get_current_user(token) = {}
       THEN /\ req' = Request("delete_user", "", user_id, <<>>)
            /\ resp' = HTTPException(401) /\ UNCHANGED users
       ELSE \E current_user \in S6_get_current_user(token) :
            /\ req' = Request("delete_user", current_user._id, user_id, <<>>)
            /\ IF ~S6_admin_required(current_user)
               THEN resp' = HTTPException(403) /\ UNCHANGED users
               ELSE IF ~IsObjectId(user_id)
               THEN resp' = HTTPException(400) /\ UNCHANGED users
               ELSE IF matched_count(users, ObjectId(user_id)) = 0
               THEN resp' = HTTPException(404) /\ UNCHANGED users
               ELSE /\ users' = delete_one(users, ObjectId(user_id))
                    /\ resp' = Response(200, TRUE, {})
    /\ UNCHANGED <<module, nextId, tokens, now, issued, calls, file, mode>>

\* update_self, the handler written for PUT /users/me
\* (Depends(get_current_user)).
S6_update_self(token, body) ==
    /\ module = "S6"
    /\ IF S6_get_current_user(token) = {}
       THEN /\ req' = Request("update_self", "", "", body)
            /\ resp' = HTTPException(401) /\ UNCHANGED users
       ELSE \E current_user \in S6_get_current_user(token) :
            /\ req' = Request("update_self", current_user._id, "", body)
            /\ IF ~S6_UserUpdateModel_ok(body)
               THEN resp' = RequestValidationError /\ UNCHANGED users
               ELSE IF S6_update_data(body) = <<>>
               THEN resp' = Response(200, FALSE, {}) /\ UNCHANGED users
               ELSE /\ users' = update_one(users, ObjectId(current_user._id), S6_update_data(body))
                    /\ resp' = Response(200, TRUE,
                          {S6_serialize_user(u) :
                              u \in find_by_id(users', ObjectId(current_user._id))})
    /\ UNCHANGED <<module, nextId, tokens, now, issued, calls, file, mode>>

\* The routes in the order the application holds them: /login is added to
\* app where it is defined, the routes of user_router (prefix /users), in
\* the order of their decorators, when include_router runs at the end.  A
\* path is the sequence of its segments.
S6_routes ==
    << [method |-> "POST",   path |-> <<"login">>,                endpoint |-> "login"],
       [method |-> "GET",    path |-> <<"users", "">>,            endpoint |-> "read_all_users"],
       [method |-> "GET",    path |-> <<"users", "{user_id}">>,   endpoint |-> "read_each_user"],
       [method |-> "POST",   path |-> <<"users", "create">>,      endpoint |-> "create_user"],
       [method |-> "PUT",    path |-> <<"users", "{user_id}">>,   endpoint |-> "update_user"],
       [method |-> "DELETE", path |-> <<"users", "{user_id}">>,   endpoint |-> "delete_user"],
       [method |-> "PUT",    path |-> <<"users", "me">>,          endpoint |-> "update_self"] >>

\* The path regex of a route matches: a {user_id} segment takes any
\* non-empty string, any other segment itself.
S6_path_matches(route_path, path) ==
    /\ Len(route_path) = Len(path)
    /\ \A i \in DOMAIN path :
          IF route_path[i] = "{user_id}" THEN path[i] # "" ELSE route_path[i] = path[i]

\* Router dispatch: the endpoint of the first route that matches path and
\* method; 405 when routes match the path only, 404 when none does.
S6_dispatch(method, path) ==
    LET full == {i \in DOMAIN S6_routes :
                    /\ S6_path_matches(S6_routes[i].path, path)
                    /\ S6_routes[i].method = method}
        partial == {i \in DOMAIN S6_routes : S6_path_matches(S6_routes[i].path, path)}
    IN IF full # {} THEN S6_routes[CHOOSE i \in full : \A j \in full : i <= j].endpoint
       ELSE IF partial # {} THEN "405"
       ELSE "404"

\* The paths PUT requests are sent to: /users/<user_id>, "me" among them.
S6_put_paths == {<<"users", user_id>> : user_id \in UserIds}

\* A PUT request, handled by the endpoint it is dispatched to.
S6_put(path, token, body) ==
    IF S6_dispatch("PUT", path) = "update_user" THEN S6_update_user(token, path[2], body)
    ELSE IF S6_dispatch("PUT", path) = "update_self" THEN S6_update_self(token, body)
    ELSE FALSE

S6_Next ==
    \/ \E username \in Usernames, password \in LoginPasswords :
          S6_login(username, password)
    \/ \E username \in NameFilters, userage \in AgeFilters, limit \in Limits, skip \in Skips,
          sort_by \in SortFields, sort_order \in {1, -1} :
          S6_read_all_users(username, userage, limit, skip, sort_by, sort_order)
    \/ \E user_id \in UserIds : S6_read_each_user(user_id)
    \/ \E token \in Bearers, body \in CreateBodies : S6_create_user(token, body)
    \/ \E path \in S6_put_paths, token \in Bearers, body \in UpdateBodies :
          S6_put(path, token, body)
    \/ \E token \in Bearers, user_id \in UserIds : S6_delete_user(token, user_id)

---------------------------------------------------------------------------
(* AsyncDB-FastAPI/Level1.py *)

\* The inline `user["_id"] = str(user["_id"])` of the handlers.
A1_str_id(user) ==
    [k \in DOMAIN user |-> IF k = "_id" THEN ObjectIdStr(user._id) ELSE user[k]]

\* UserCreateModel: username and userage are required.
A1_UserCreateModel_ok(body) == {"username", "userage"} \subseteq DOMAIN body

\* update_data of update_user: the supplied fields of UserUpdateModel.
A1_update_data(body) == Restrict(body, {"username", "userage"})

\* GET /users/
A1_read_all_users ==
    /\ module = "A1"
    /\ req' = Request("read_all_users", "", "", <<>>)
    /\ resp' = Response(200, TRUE, {A1_str_id(u) : u \in users})
    /\ UNCHANGED <<module, users, nextId, tokens, now, issued, calls, file, mode>>

\* GET /users/{user_id}
A1_read_each_user(user_id) ==
    /\ module = "A1"
    /\ req' = Request("read_each_user", "", user_id, <<>>)
    /\ resp' = IF ~IsObjectId(user_id) THEN HTTPException(400)
               ELSE IF find_by_id(users, ObjectId(user_id)) = {} THEN HTTPException(404)
               ELSE Response(200, TRUE,
                        {A1_str_id(u) : u \in find_by_id(users, ObjectId(user_id))})
    /\ UNCHANGED <<module, users, nextId, tokens, now, issued, calls, file, mode>>

\* POST /users/create
A1_create_user(body) ==
    /\ module = "A1"
    /\ req' = Request("create_user", "", "", body)
    /\ IF ~A1_UserCreateModel_ok(body)
       THEN resp' = RequestValidationError /\ UNCHANGED <<users, nextId>>
       ELSE /\ nextId <= MaxId
            /\ users' = insert_one(users,
                           [username |-> body.username, userage |-> body.userage], nextId)
            /\ nextId' = nextId + 1
            /\ resp' = Response(201, TRUE, {})
    /\ UNCHANGED <<module, tokens, now, issued, calls, file, mode>>

\* PUT /users/{user_id}
A1_update_user(user_id, body) ==
    /\ module = "A1"
    /\ req' = Request("update_user", "", user_id, body)
    /\ IF ~IsObjectId(user_id)
       THEN resp' = HTTPException(400) /\ UNCHANGED users
       ELSE IF A1_update_data(body) = <<>>
       THEN resp' = Response(200, FALSE, {}) /\ UNCHANGED users
       ELSE IF matched_count(users, ObjectId(user_id)) = 0
       THEN resp' = HTTPException(404) /\ UNCHANGED users
       ELSE /\ users' = update_one(users, ObjectId(user_id), A1_update_data(body))
            /\ resp' = Response(200, TRUE,
                          {A1_str_id(u) : u \in find_by_id(users', ObjectId(user_id))})
    /\ UNCHANGED <<module, nextId, tokens, now, issued, calls, file, mode>>

\* DELETE /users/{user_id}
A1_delete_user(user_id) ==
    /\ module = "A1"
    /\ req' = Request("delete_user", "", user_id, <<>>)
    /\ IF ~IsObjectId(user_id)
       THEN resp' = HTTPException(400) /\ UNCHANGED users
       ELSE IF matched_count(users, ObjectId(user_id)) = 0
       THEN resp' = HTTPException(404) /\ UNCHANGED users
       ELSE /\ users' = delete_one(users, ObjectId(user_id))
            /\ resp' = Response(200, TRUE, {})
    /\ UNCHANGED <<module, nextId, tokens, now, issued, calls, file, mode>>

A1_Next ==
    \/ A1_read_all_users
    \/ \E user_id \in UserIds : A1_read_each_user(user_id)
    \/ \E body \in CreateBodies : A1_create_user(body)
    \/ \E user_id \in UserIds, body \in UpdateBodies : A1_update_user(user_id, body)
    \/ \E user_id \in UserIds : A1_delete_user(user_id)

---------------------------------------------------------------------------
(* AsyncDB-FastAPI/Level3.py *)

\* serialize_user: _id as a string.
A3_serialize_user(user) ==
    [k \in DOMAIN user |-> IF k = "_id" THEN ObjectIdStr(user._id) ELSE user[k]]

\* UserCreateModel: username and userage are required.
A3_UserCreateModel_ok(body) == {"username", "userage"} \subseteq DOMAIN body

\* update_data of update_user: the supplied fields of UserUpdateModel.
A3_update_data(body) == Restrict(body, {"username", "userage"})

\* GET /users/: Query(0, ge=0) and Query(10, ge=1) reject a skip or limit
\* out of range; then the page of the sorted cursor over the filtered
\* documents.
A3_read_all_users(username, min_age, max_age, skip, limit, sort_by, sort_order) ==
    /\ module = "A3"
    /\ req' = Request("read_all_users", "", "", <<>>)
    /\ IF ~(skip >= 0 /\ limit >= 1)
       THEN resp' = RequestValidationError
       ELSE \E cursor \in SortedCursors(
                             find_age_range(find_username(users, username), min_age, max_age),
                             sort_by, IF sort_order = "asc" THEN 1 ELSE -1) :
               resp' = Response(200, TRUE,
                          {A3_serialize_user(u) : u \in Page(cursor, skip, limit)})
    /\ UNCHANGED <<module, users, nextId, tokens, now, issued, calls, file, mode>>

\* GET /users/{user_id}
A3_read_each_user(user_id) ==
    /\ module = "A3"
    /\ req' = Request("read_each_user", "", user_id, <<>>)
    /\ resp' = IF ~IsObjectId(user_id) THEN HTTPException(400)
               ELSE IF find_by_id(users, ObjectId(user_id)) = {} THEN HTTPException(404)
               ELSE Response(200, TRUE,
                        {A3_serialize_user(u) : u \in find_by_id(users, ObjectId(user_id))})
    /\ UNCHANGED <<module, users, nextId, tokens, now, issued, calls, file, mode>>

\* POST /users/create
A3_create_user(body) ==
    /\ module = "A3"
    /\ req' = Request("create_user", "", "", body)
    /\ IF ~A3_UserCreateModel_ok(body)
       THEN resp' = RequestValidationError /\ UNCHANGED <<users, nextId>>
       ELSE /\ nextId <= MaxId
            /\ users' = insert_one(users,
                           [username |-> body.username, userage |-> body.userage], nextId)
            /\ nextId' = nextId + 1
            /\ resp' = Response(201, TRUE, {})
    /\ UNCHANGED <<module, tokens, now, issued, calls, file, mode>>

\* DELETE /users/{user_id}
A3_delete_user(user_id) ==
    /\ module = "A3"
    /\ req' = Request("delete_user", "", user_id, <<>>)
    /\ IF ~IsObjectId(user_id)
       THEN resp' = HTTPException(400) /\ UNCHANGED users
       ELSE IF matched_count(users, ObjectId(user_id)) = 0
       THEN resp' = HTTPException(404) /\ UNCHANGED users
       ELSE /\ users' = delete_one(users, ObjectId(user_id))
            /\ resp' = Response(200, TRUE, {})
    /\ UNCHANGED <<module, nextId, tokens, now, issued, calls, file, mode>>

\* PUT /users/{user_id}
A3_update_user(user_id, body) ==
    /\ module = "A3"
    /\ req' = Request("update_user", "", user_id, body)
    /\ IF ~IsObjectId(user_id)
       THEN resp' = HTTPException(400) /\ UNCHANGED users
       ELSE IF A3_update_data(body) = <<>>
       THEN resp' = Response(200, FALSE, {}) /\ UNCHANGED users
       ELSE IF matched_count(users, ObjectId(user_id)) = 0
       THEN resp' = HTTPException(404) /\ UNCHANGED users
       ELSE /\ users' = update_one(users, ObjectId(user_id), A3_update_data(body))
            /\ resp' = Response(200, TRUE,
                          {A3_serialize_user(u) : u \in find_by_id(users', ObjectId(user_id))})
    /\ UNCHANGED <<module, nextId, tokens, now, issued, calls, file, mode>>

A3_Next ==
    \/ \E username \in NameFilters, min_age \in AgeFilters, max_age \in AgeFilters,
          skip \in Skips, limit \in Limits, sort_by \in SortFields,
          sort_order \in {"asc", "desc"} :
          A3_read_all_users(username, min_age, max_age, skip, limit, sort_by, sort_order)
    \/ \E user_id \in UserIds : A3_read_each_user(user_id)
    \/ \E body \in CreateBodies : A3_create_user(body)
    \/ \E user_id \in UserIds : A3_delete_user(user_id)
    \/ \E user_id \in UserIds, body \in UpdateBodies : A3_update_user(user_id, body)

---------------------------------------------------------------------------
(* AsyncDB-FastAPI/Level4.py *)

\* serialize_user: _id as a string, password removed.
A4_serialize_user(user) ==
    [k \in DOMAIN user \ {"password"} |->
        IF k = "_id" THEN ObjectIdStr(user._id) ELSE user[k]]

\* UserCreateModel: the required fields are present (it has no validators).
A4_UserCreateModel_ok(body) ==
    {"username", "password", "userage"} \subseteq DOMAIN body

\* update_data of update_user: the supplied fields of UserUpdateModel, the
\* password hashed.
A4_update_data(body) ==
    [k \in DOMAIN body \cap {"username", "password", "userage"} |->
        IF k = "password" THEN hash_password(body[k]) ELSE body[k]]

\* get_current_user: the stored documents it may return; none means that
\* it raises.
A4_get_current_user(token) ==
    IF ~jwt_decode_ok(token) \/ "sub" \notin DOMAIN token THEN {}
    ELSE IF ~IsObjectId(token.sub) THEN {}
    ELSE find_by_id(users, ObjectId(token.sub))

\* What get_current_user raises: credentials_exception (401), but for a
\* decoded "sub" that is no ObjectId, where ObjectId(user_id) raises
\* InvalidId inside a try that catches JWTError only (500).
A4_get_current_user_raises(token) ==
    IF jwt_decode_ok(token) /\ "sub" \in DOMAIN token /\ ~IsObjectId(token.sub)
    THEN 500 ELSE 401

\* POST /users/create (public)
A4_create_user(body) ==
    /\ module = "A4"
    /\ req' = Request("create_user", "", "", body)
    /\ IF ~A4_UserCreateModel_ok(body)
       THEN resp' = RequestValidationError /\ UNCHANGED <<users, nextId>>
       ELSE /\ nextId <= MaxId
            /\ users' = insert_one(users,
                           [username |-> body.username,
                            password |-> hash_password(body.password),
                            userage  |-> body.userage], nextId)
            /\ nextId' = nextId + 1
            /\ resp' = Response(201, TRUE, {})
    /\ UNCHANGED <<module, tokens, now, issued, calls, file, mode>>

\* POST /login; `record` says whether the behaviour keeps the history of
\* signed tokens (`issued`), which no handler reads.
A4_login_signed(username, password, record) ==
    /\ module = "A4"
    /\ req' = Request("login", "", "", <<>>)
    /\ IF find_by_username(users, username) = {}
       THEN resp' = HTTPException(401) /\ UNCHANGED <<tokens, issued>>
       ELSE \E user \in find_by_username(users, username) :
            IF ~verify_password(password, user.password)
            THEN resp' = HTTPException(401) /\ UNCHANGED <<tokens, issued>>
            ELSE LET access_token == create_access_token([sub |-> ObjectIdStr(user._id)],
                                                         ACCESS_TOKEN_EXPIRE_MINUTES, 15)
                 IN /\ tokens' = tokens \cup {access_token}
                    /\ issued' = IF record
                                 THEN issued \cup {<<access_token, user._id, "">>}
                                 ELSE issued
                    /\ resp' = Response(200, TRUE, {access_token})
    /\ UNCHANGED <<module, users, nextId, now, calls, file, mode>>

A4_login(username, password) == A4_login_signed(username, password, FALSE)

\* GET /users/ (Depends(get_current_user))
A4_read_all_users(token) ==
    /\ module = "A4"
    /\ IF A4_get_current_user(token) = {}
       THEN /\ req' = Request("read_all_users", "", "", <<>>)
            /\ resp' = HTTPException(A4_get_current_user_raises(token))
       ELSE \E current_user \in A4_get_current_user(token) :
            /\ req' = Request("read_all_users", ObjectIdStr(current_user._id), "", <<>>)
            /\ resp' = Response(200, TRUE, {A4_serialize_user(u) : u \in users})
    /\ UNCHANGED <<module, users, nextId, tokens, now, issued, calls, file, mode>>

\* GET /users/{user_id} (Depends(get_current_user))
A4_read_each_user(token, user_id) ==
    /\ module = "A4"
    /\ IF A4_get_current_user(token) = {}
       THEN /\ req' = Request("read_each_user", "", user_id, <<>>)
            /\ resp' = HTTPException(A4_get_current_user_raises(token))
       ELSE \E current_user \in A4_get_current_user(token) :
            /\ req' = Request("read_each_user", ObjectIdStr(current_user._id), user_id, <<>>)
            /\ resp' = IF ~IsObjectId(user_id) THEN HTTPException(400)
                       ELSE IF find_by_id(users, ObjectId(user_id)) = {}
                       THEN HTTPException(404)
                       ELSE Response(200, TRUE,
                               {A4_serialize_user(u) : u \in find_by_id(users, ObjectId(user_id))})
    /\ UNCHANGED <<module, users, nextId, tokens, now, issued, calls, file, mode>>

\* PUT /users/{user_id} (Depends(get_current_user))
A4_update_user(token, user_id, body) ==
    /\ module = "A4"
    /\ IF A4_get_current_user(token) = {}
       THEN /\ req' = Request("update_user", "", user_id, body)
            /\ resp' = HTTPException(A4_get_current_user_raises(token)) /\ UNCHANGED users
       ELSE \E current_user \in A4_get_current_user(token) :
            /\ req' = Request("update_user", ObjectIdStr(current_user._id), user_id, body)
            /\ IF ~IsObjectId(user_id)
               THEN resp' = HTTPException(400) /\ UNCHANGED users
               ELSE IF A4_update_data(body) = <<>>
               THEN resp' = Response(200, FALSE, {}) /\ UNCHANGED users
               ELSE IF matched_count(users, ObjectId(user_id)) = 0
               THEN resp' = HTTPException(404) /\ UNCHANGED users
               ELSE /\ users' = update_one(users, ObjectId(user_id), A4_update_data(body))
                    /\ resp' = Response(200, TRUE,
                          {A4_serialize_user(u) : u \in find_by_id(users', ObjectId(user_id))})
    /\ UNCHANGED <<module, nextId, tokens, now, issued, calls, file, mode>>

\* DELETE /users/{user_id} (Depends(get_current_user))
A4_delete_user(token, user_id) ==
    /\ module = "A4"
    /\ IF A4_get_current_user(token) = {}
       THEN /\ req' = Request("delete_user", "", user_id, <<>>)
            /\ resp' = HTTPException(A4_get_current_user_raises(token)) /\ UNCHANGED users
       ELSE \E current_user \in A4_get_current_user(token) :
            /\ req' = Request("delete_user", ObjectIdStr(current_user._id), user_id, <<>>)
            /\ IF ~IsObjectId(user_id)
               THEN resp' = HTTPException(400) /\ UNCHANGED users
               ELSE IF matched_count(users, ObjectId(user_id)) = 0
               THEN resp' = HTTPException(404) /\ UNCHANGED users
               ELSE /\ users' = delete_one(users, ObjectId(user_id))
                    /\ resp' = Response(200, TRUE, {})
    /\ UNCHANGED <<module, nextId, tokens, now, issued, calls, file, mode>>

A4_Next ==
    \/ \E body \in CreateBodies : A4_create_user(body)
    \/ \E username \in Usernames, password \in LoginPasswords : A4_login(username, password)
    \/ \E token \in Bearers : A4_read_all_users(token)
    \/ \E token \in Bearers, user_id \in UserIds : A4_read_each_user(token, user_id)
    \/ \E token \in Bearers, user_id \in UserIds, body \in UpdateBodies :
          A4_update_user(token, user_id, body)
    \/ \E token \in Bearers, user_id \in UserIds : A4_delete_user(token, user_id)

---------------------------------------------------------------------------
(* AsyncDB-FastAPI/Level6.py *)

\* serialize_user: _id as a string, password removed.
A6_serialize_user(user) ==
    [k \in DOMAIN user \ {"password"} |->
        IF k = "_id" THEN ObjectIdStr(user._id) ELSE user[k]]

\* UserCreateModel: the required fields are present (it has no validators).
A6_UserCreateModel_ok(body) ==
    {"username", "password", "userage"} \subseteq DOMAIN body

\* UserCreateModel.role: Optional[str] = "user".
A6_create_role(body) == IF "role" \in DOMAIN body THEN body.role ELSE "user"

\* update_data of update_user: the supplied fields of UserUpdateModel
\* (username, password, userage: the model has no role), the password hashed.
A6_update_data(body) ==
    [k \in DOMAIN body \cap {"username", "password", "userage"} |->
        IF k = "password" THEN hash_password(body[k]) ELSE body[k]]

\* get_current_user: the stored documents it may return; none means that
\* it raises.
A6_get_current_user(token) ==
    IF ~jwt_decode_ok(token) \/ "sub" \notin DOMAIN token THEN {}
    ELSE IF ~IsObjectId(token.sub) THEN {}
    ELSE find_by_id(users, ObjectId(token.sub))

\* What get_current_user raises: credentials_exception (401), but for a
\* decoded "sub" that is no ObjectId, where ObjectId(user_id) raises
\* InvalidId inside a try that catches JWTError only (500).
A6_get_current_user_raises(token) ==
    IF jwt_decode_ok(token) /\ "sub" \in DOMAIN token /\ ~IsObjectId(token.sub)
    THEN 500 ELSE 401

\* require_admin passes.
A6_require_admin(user) == "role" \in DOMAIN user /\ user.role = "admin"

\* POST /users/create
A6_create_user(token, body) ==
    /\ module = "A6"
    /\ IF A6_get_current_user(token) = {}
       THEN /\ req' = Request("create_user", "", "", body)
            /\ resp' = HTTPException(A6_get_current_user_raises(token)) /\ UNCHANGED <<users, nextId>>
       ELSE \E current_user \in A6_get_current_user(token) :
            /\ req' = Request("create_user", ObjectIdStr(current_user._id), "", body)
            /\ IF ~A6_UserCreateModel_ok(body)
               THEN resp' = RequestValidationError /\ UNCHANGED <<users, nextId>>
               ELSE IF ~A6_require_admin(current_user)
               THEN resp' = HTTPException(403) /\ UNCHANGED <<users, nextId>>
               ELSE /\ nextId <= MaxId
                    /\ users' = insert_one(users,
                                   [username |-> body.username,
                                    password |-> hash_password(body.password),
                                    userage  |-> body.userage,
                                    role     |-> A6_create_role(body)], nextId)
                    /\ nextId' = nextId + 1
                    /\ resp' = Response(201, TRUE, {})
    /\ UNCHANGED <<module, tokens, now, issued, calls, file, mode>>

\* POST /login; `record` says whether the behaviour keeps the history of
\* signed tokens (`issued`), which no handler reads.
A6_login_signed(username, password, record) ==
    /\ module = "A6"
    /\ req' = Request("login", "", "", <<>>)
    /\ IF find_by_username(users, username) = {}
       THEN resp' = HTTPException(401) /\ UNCHANGED <<tokens, issued>>
       ELSE \E user \in find_by_username(users, username) :
            IF ~verify_password(password, user.password)
            THEN resp' = HTTPException(401) /\ UNCHANGED <<tokens, issued>>
            ELSE LET access_token == create_access_token(
                                         [sub |-> ObjectIdStr(user._id), role |-> user.role],
                                         ACCESS_TOKEN_EXPIRE_MINUTES, 15)
                 IN /\ tokens' = tokens \cup {access_token}
                    /\ issued' = IF record
                                 THEN issued \cup {<<access_token, user._id, user.role>>}
                                 ELSE issued
                    /\ resp' = Response(200, TRUE, {access_token})
    /\ UNCHANGED <<module, users, nextId, now, calls, file, mode>>

A6_login(username, password) == A6_login_signed(username, password, FALSE)

\* What read_all_users answers to current_user: 422 for a skip or limit
\* out of range, 403 to a caller who is no admin, else the page of the
\* sorted cursor.
A6_read_all_users_response(current_user, username, min_age, max_age, skip, limit, sort_by, sort_order) ==
    IF ~(skip >= 0 /\ limit >= 1)
    THEN resp' = RequestValidationError
    ELSE IF ~A6_require_admin(current_user)
    THEN resp' = HTTPException(403)
    ELSE \E cursor \in SortedCursors(
                          find_age_range(find_username(users, username), min_age, max_age),
                          sort_by, IF sort_order = "asc" THEN 1 ELSE -1) :
            resp' = Response(200, TRUE,
                       {A6_serialize_user(u) : u \in Page(cursor, skip, limit)})

\* GET /users/ (admin only)
A6_read_all_users(token, username, min_age, max_age, skip, limit, sort_by, sort_order) ==
    /\ module = "A6"
    /\ IF A6_get_current_user(token) = {}
       THEN /\ req' = Request("read_all_users", "", "", <<>>)
            /\ resp' = HTTPException(A6_get_current_user_raises(token))
       ELSE \E current_user \in A6_get_current_user(token) :
            /\ req' = Request("read_all_users", ObjectIdStr(current_user._id), "", <<>>)
            /\ A6_read_all_users_response(current_user, username, min_age, max_age,
                                          skip, limit, sort_by, sort_order)
    /\ UNCHANGED <<module, users, nextId, tokens, now, issued, calls, file, mode>>

\* GET /users/{user_id} (self or admin)
A6_read_each_user(token, user_id) ==
    /\ module = "A6"
    /\ IF A6_get_current_user(token) = {}
       THEN /\ req' = Request("read_each_user", "", user_id, <<>>)
            /\ resp' = HTTPException(A6_get_current_user_raises(token))
       ELSE \E current_user \in A6_get_current_user(token) :
            /\ req' = Request("read_each_user", ObjectIdStr(current_user._id), user_id, <<>>)
            /\ IF ~IsObjectId(user_id)
               THEN resp' = HTTPException(400)
               ELSE IF find_by_id(users, ObjectId(user_id)) = {}
               THEN resp' = HTTPException(404)
               ELSE IF ~A6_require_admin(current_user)
                       /\ ObjectIdStr(ObjectId(user_id)) # ObjectIdStr(current_user._id)
               THEN resp' = HTTPException(403)
               ELSE resp' = Response(200, TRUE,
                               {A6_serialize_user(u) : u \in find_by_id(users, ObjectId(user_id))})
    /\ UNCHANGED <<module, users, nextId, tokens, now, issued, calls, file, mode>>

\* PUT /users/{user_id} (self or admin)
A6_update_user(token, user_id, body) ==
    /\ module = "A6"
    /\ IF A6_get_current_user(token) = {}
       THEN /\ req' = Request("update_user", "", user_id, body)
            /\ resp' = HTTPException(A6_get_current_user_raises(token)) /\ UNCHANGED users
       ELSE \E current_user \in A6_get_current_user(token) :
            /\ req' = Request("update_user", ObjectIdStr(current_user._id), user_id, body)
            /\ IF ~IsObjectId(user_id)
               THEN resp' = HTTPException(400) /\ UNCHANGED users
               ELSE IF A6_update_data(body) = <<>>
               THEN resp' = Response(200, FALSE, {}) /\ UNCHANGED users
               ELSE IF ~A6_require_admin(current_user)
                       /\ ObjectIdStr(ObjectId(user_id)) # ObjectIdStr(current_user._id)
               THEN resp' = HTTPException(403) /\ UNCHANGED users
               ELSE IF matched_count(users, ObjectId(user_id)) = 0
               THEN resp' = HTTPException(404) /\ UNCHANGED users
               ELSE /\ users' = update_one(users, ObjectId(user_id), A6_update_data(body))
                    /\ resp' = Response(200, TRUE,
                          {A6_serialize_user(u) : u \in find_by_id(users', ObjectId(user_id))})
    /\ UNCHANGED <<module, nextId, tokens, now, issued, calls, file, mode>>

\* DELETE /users/{user_id} (admin only)
A6_delete_user(token, user_id) ==
    /\ module = "A6"
    /\ IF A6_get_current_user(token) = {}
       THEN /\ req' = Request("delete_user", "", user_id, <<>>)
            /\ resp' = HTTPException(A6_get_current_user_raises(token)) /\ UNCHANGED users
       ELSE \E current_user \in A6_get_current_user(token) :
            /\ req' = Request("delete_user", ObjectIdStr(current_user._id), user_id, <<>>)
            /\ IF ~A6_require_admin(current_user)
               THEN resp' = HTTPException(403) /\ UNCHANGED users
               ELSE IF ~IsObjectId(user_id)
               THEN resp' = HTTPException(400) /\ UNCHANGED users
               ELSE IF matched_count(users, ObjectId(user_id)) = 0
               THEN resp' = HTTPException(404) /\ UNCHANGED users
               ELSE /\ users' = delete_one(users, ObjectId(user_id))
                    /\ resp' = Response(200, TRUE, {})
    /\ UNCHANGED <<module, nextId, tokens, now, issued, calls, file, mode>>

A6_Next ==
    \/ \E username \in Usernames, password \in LoginPasswords : A6_login(username, password)
    \/ \E token \in Bearers, username \in NameFilters, min_age \in AgeFilters,
          max_age \in AgeFilters, skip \in Skips, limit \in Limits,
          sort_by \in SortFields, sort_order \in {"asc", "desc"} :
          A6_read_all_users(token, username, min_age, max_age, skip, limit, sort_by, sort_order)
    \/ \E token \in Bearers, user_id \in UserIds : A6_read_each_user(token, user_id)
    \/ \E token \in Bearers, body \in CreateBodies : A6_create_user(token, body)
    \/ \E token \in Bearers, user_id \in UserIds, body \in UpdateBodies :
          A6_update_user(token, user_id, body)
    \/ \E token \in Bearers, user_id \in UserIds : A6_delete_user(token, user_id)

---------------------------------------------------------------------------
(* The collection at start: seeded outside the API *)

\* The modules: SyncDB-FastAPI Level1, 2, 3, 5, 6 and AsyncDB-FastAPI
\* Level1, 3, 4, 6.
Modules == {"S1", "S2", "S3", "S5", "S6", "A1", "A3", "A4", "A6"}

\* The keys of the documents module m inserts.
StoredFields(m) ==
    {"_id", "username", "userage"}
       \cup (IF m \in {"S5", "S6", "A4", "A6"} THEN {"password"} ELSE {})
       \cup (IF m \in {"S6", "A6"} THEN {"role"} ELSE {})

\* A document of the collection as seeded.
SeedUser(oid, username, role) ==
    [_id |-> oid, username |-> username, userage |-> 1,
     password |-> hash_password("secret1"), role |-> role]

\* The seeded collections: empty, or an administrator, alone or with a user.
SeedStores(m) ==
    {{Restrict(u, StoredFields(m)) : u \in U} :
        U \in { {},
                {SeedUser(1, "alice", "admin")},
                {SeedUser(1, "alice", "admin"), SeedUser(2, "bob", "user")} }}

Init ==
    /\ module \in Modules
    /\ users \in SeedStores(module)
    /\ nextId = Cardinality(users) + 1
    /\ tokens = {}
    /\ now = 0
    /\ req = Request("none", "", "", <<>>)
    /\ resp = Response(0, FALSE, {})
    /\ issued = {}
    /\ calls = {}
    /\ file = <<>>
    /\ mode = {"r", "w"}

Next ==
    \/ S1_Next \/ S2_Next \/ S3_Next \/ S5_Next \/ S6_Next
    \/ A1_Next \/ A3_Next \/ A4_Next \/ A6_Next

Spec == Init /\ [][Next]_vars

\* The handlers called as functions as well: the requests of Next, and
\* update_self of SyncDB Level6 run on its own, as a caller that reaches it
\* runs it.
HandlersNext ==
    \/ Next
    \/ \E token \in Bearers, body \in UpdateBodies : S6_update_self(token, body)

SpecHandlers == Init /\ [][HandlersNext]_vars

---------------------------------------------------------------------------
(* The modules with tokens, with the clock running *)

\* datetime.utcnow() is later at a later call.
Tick ==
    /\ now + Advance <= MaxNow
    /\ now' = now + Advance
    /\ UNCHANGED <<module, users, nextId, tokens, req, resp, issued, calls, file, mode>>

\* The claims create_access_token is given: a subject that is a username, an
\* _id that is stored, an _id that is not, or none.
TokenClaims ==
    {<<>>} \cup {[sub |-> sub] : sub \in {"alice", ObjectIdStr(1), ObjectIdStr(MaxId + 1)}}

\* create_access_token called on its own, by a holder of SECRET_KEY; the
\* default for a falsy expires_delta is ACCESS_TOKEN_EXPIRE_MINUTES in the
\* SyncDB modules and 15 minutes in the AsyncDB modules.
create_access_token_called(data, expires_delta) ==
    /\ module \in {"S5", "S6", "A4", "A6"}
    /\ LET access_token ==
             create_access_token(data, expires_delta,
                 IF module \in {"S5", "S6"} THEN ACCESS_TOKEN_EXPIRE_MINUTES ELSE 15)
       IN /\ tokens' = tokens \cup {access_token}
          /\ req' = [handler |-> "create_access_token", caller |-> "", user_id |-> "",
                     fields |-> DOMAIN data, expires_delta |-> expires_delta]
          /\ resp' = Response(0, TRUE, {access_token})
    /\ UNCHANGED <<module, users, nextId, now, issued, calls, file, mode>>

\* Tokens that SECRET_KEY did not sign.
ForgedTokens ==
    {[sig |-> "bad", sub |-> sub, exp |-> MaxNow + ACCESS_TOKEN_EXPIRE_MINUTES] :
        sub \in {"alice", ObjectIdStr(1)}}

\* The bearer tokens a caller can present, forged ones among them.
Presented == Bearers \cup ForgedTokens

\* The identifiers and bodies of the requests made while the clock runs.
TokenUserIds == {ObjectIdStr(1), ObjectIdStr(2)}
TokenUpdateBodies == {[username |-> "bob"], [userage |-> 2]}
TokenCreateBodies == {[username |-> "bob", userage |-> 2, password |-> "secret1"]}

TokensInit == Init /\ module \in {"S5", "S6", "A4", "A6"}

\* A request to a route behind Depends(get_current_user) or
\* Depends(admin_required), with token as its bearer token.
ProtectedRequest(token) ==
    \/ \E body \in TokenCreateBodies :
          S5_create_user(token, body) \/ S6_create_user(token, body) \/ A6_create_user(token, body)
    \/ A4_read_all_users(token)
    \/ A6_read_all_users(token, "", {}, {}, 0, 10, "username", "asc")
    \/ \E user_id \in TokenUserIds :
          A4_read_each_user(token, user_id) \/ A6_read_each_user(token, user_id)
    \/ \E user_id \in TokenUserIds, body \in TokenUpdateBodies :
          \/ S5_update_user(token, user_id, body)
          \/ S6_put(<<"users", user_id>>, token, body)
          \/ A4_update_user(token, user_id, body)
          \/ A6_update_user(token, user_id, body)
    \/ \E user_id \in TokenUserIds :
          \/ S5_delete_user(token, user_id) \/ S6_delete_user(token, user_id)
          \/ A4_delete_user(token, user_id) \/ A6_delete_user(token, user_id)

TokensNext ==
    \/ Tick
    \/ \E data \in TokenClaims, expires_delta \in {0, Advance} :
          create_access_token_called(data, expires_delta) /\ Cardinality(tokens') <= MaxTokens
    \/ \E username \in Usernames, password \in LoginPasswords :
          /\ \/ S5_login(username, password) \/ S6_login(username, password)
             \/ A4_login(username, password) \/ A6_login(username, password)
          /\ Cardinality(tokens') <= MaxTokens
    \/ \E token \in Presented : ProtectedRequest(token)

SpecTokens == TokensInit /\ [][TokensNext]_vars

---------------------------------------------------------------------------
(* The modules with passwords, with more than one password *)

\* The passwords of the create and update bodies, and of /login.
PasswordsIn == {"secret1", "secret2"}

PasswordCreateBodies ==
    {[username |-> username, userage |-> 2, password |-> password] :
        username \in Usernames, password \in PasswordsIn}

PasswordUpdateBodies ==
    {[password |-> password] : password \in PasswordsIn}
       \cup {[username |-> username] : username \in Usernames}

PasswordsNext ==
    \/ \E username \in Usernames, password \in PasswordsIn \cup {"wrong00"} :
          \/ S5_login(username, password) \/ S6_login(username, password)
          \/ A4_login(username, password) \/ A6_login(username, password)
    \/ \E token \in Bearers, body \in PasswordCreateBodies :
          \/ S5_create_user(token, body) \/ S6_create_user(token, body)
          \/ A4_create_user(body) \/ A6_create_user(token, body)
    \/ \E token \in Bearers, user_id \in TokenUserIds, body \in PasswordUpdateBodies :
          \/ S5_update_user(token, user_id, body)
          \/ S6_put(<<"users", user_id>>, token, body)
          \/ A4_update_user(token, user_id, body)
          \/ A6_update_user(token, user_id, body)

SpecPasswords == TokensInit /\ [][PasswordsNext]_vars

---------------------------------------------------------------------------
(* The modules with validators, with bodies the validators are for *)

\* Bodies of create_user: a username of two or of three characters, an age
\* of zero or more, a role that is one of the two or is not, or no role.
ValidationCreateBodies ==
    LET B == {[username |-> username, userage |-> userage,
               password |-> "secret1", role |-> role] :
                 username \in {"al", "bob"}, userage \in {0, 2}, role \in {"user", "root"}}
    IN B \cup {Restrict(body, BodyFields \ {"role"}) : body \in B}

\* Bodies of update_user: one such field.
ValidationUpdateBodies ==
    {[username |-> username] : username \in {"al", "bob"}}
       \cup {[userage |-> userage] : userage \in {0, 2}}
       \cup {[role |-> role] : role \in {"admin", "root"}}

ValidationInit == Init /\ module \in {"S3", "S5", "S6", "A6"}

ValidationNext ==
    \/ \E username \in Usernames :
          \/ S5_login(username, "secret1") \/ S6_login(username, "secret1")
          \/ A6_login(username, "secret1")
    \/ \E token \in Bearers, body \in ValidationCreateBodies :
          \/ S3_create_user(body) \/ S5_create_user(token, body)
          \/ S6_create_user(token, body) \/ A6_create_user(token, body)
    \/ \E token \in Bearers, user_id \in TokenUserIds, body \in ValidationUpdateBodies :
          \/ S3_update_user(user_id, body)
          \/ S5_update_user(token, user_id, body)
          \/ S6_put(<<"users", user_id>>, token, body)
          \/ A6_update_user(token, user_id, body)

SpecValidation == ValidationInit /\ [][ValidationNext]_vars

---------------------------------------------------------------------------
(* The Level 6 modules, listing page after page *)

\* A GET /users/ with its query parameters: skip, limit, sort_by, and
\* sort_order as the direction given to sort().
ListRequest(caller, skip, limit, sort_by, direction) ==
    [handler |-> "read_all_users", caller |-> caller, user_id |-> "", fields |-> {},
     query |-> [skip |-> skip, limit |-> limit, sort_by |-> sort_by,
                direction |-> direction]]

\* read_all_users of SyncDB Level6 with no filter, the query kept with the
\* request.
S6_read_all_users_paged(limit, skip, sort_by, sort_order) ==
    /\ module = "S6"
    /\ req' = ListRequest("", skip, limit, sort_by, sort_order)
    /\ S6_read_all_users_response("", {}, limit, skip, sort_by, sort_order)
    /\ UNCHANGED <<module, users, nextId, tokens, now, issued, calls, file, mode>>

\* read_all_users of AsyncDB Level6 with no filter, the query kept with the
\* request.
A6_read_all_users_paged(token, skip, limit, sort_by, sort_order) ==
    /\ module = "A6"
    /\ IF A6_get_current_user(token) = {}
       THEN /\ req' = ListRequest("", skip, limit, sort_by,
                                  IF sort_order = "asc" THEN 1 ELSE -1)
            /\ resp' = HTTPException(A6_get_current_user_raises(token))
       ELSE \E current_user \in A6_get_current_user(token) :
            /\ req' = ListRequest(ObjectIdStr(current_user._id), skip, limit, sort_by,
                                  IF sort_order = "asc" THEN 1 ELSE -1)
            /\ A6_read_all_users_response(current_user, "", {}, {}, skip, limit,
                                          sort_by, sort_order)
    /\ UNCHANGED <<module, users, nextId, tokens, now, issued, calls, file, mode>>

PagesInit == Init /\ module \in {"S6", "A6"}

PagesNext ==
    \/ \E username \in Usernames :
          S6_login(username, "secret1") \/ A6_login(username, "secret1")
    \/ \E limit \in Limits, skip \in Skips, sort_by \in SortFields, sort_order \in {1, -1} :
          S6_read_all_users_paged(limit, skip, sort_by, sort_order)
    \/ \E token \in Bearers, skip \in Skips, limit \in Limits, sort_by \in SortFields,
          sort_order \in {"asc", "desc"} :
          A6_read_all_users_paged(token, skip, limit, sort_by, sort_order)
    \/ \E token \in Bearers, user_id \in TokenUserIds :
          S6_delete_user(token, user_id) \/ A6_delete_user(token, user_id)

SpecPages == PagesInit /\ [][PagesNext]_vars

---------------------------------------------------------------------------
(* The list routes with their query strings *)

\* A query parameter as sent: the set of the values given, empty when the
\* parameter is omitted.
QueryLimits == {{}, {-1}, {0}, {1}}
QuerySkips  == {{}, {-1}, {1}}
QuerySorts  == {{}, {"userage"}, {"_id"}, {"age"}}

\* Query(default): the value given, or the default when none is.
Query(given, default) == IF given = {} THEN default ELSE CHOOSE v \in given : TRUE

\* GET /users/?limit=..&skip=..&sort_by=.. of each module with pagination.
S3_read_all_users_query(limit, skip, sort_by) ==
    S3_read_all_users("", {}, Query(limit, 10), Query(skip, 0), Query(sort_by, "username"), 1)

S5_read_all_users_query(limit, skip, sort_by) ==
    S5_read_all_users("", {}, Query(limit, 10), Query(skip, 0), Query(sort_by, "username"), 1)

S6_read_all_users_query(limit, skip, sort_by) ==
    S6_read_all_users("", {}, Query(limit, 10), Query(skip, 0), Query(sort_by, "username"), 1)

A3_read_all_users_query(skip, limit, sort_by) ==
    A3_read_all_users("", {}, {}, Query(skip, 0), Query(limit, 10),
                      Query(sort_by, "username"), "asc")

A6_read_all_users_query(token, skip, limit, sort_by) ==
    A6_read_all_users(token, "", {}, {}, Query(skip, 0), Query(limit, 10),
                      Query(sort_by, "username"), "asc")

QueriesInit == Init /\ module \in {"S3", "S5", "S6", "A3", "A6"}

QueriesNext ==
    \/ \E username \in Usernames :
          \/ S5_login(username, "secret1") \/ S6_login(username, "secret1")
          \/ A6_login(username, "secret1")
    \/ \E limit \in QueryLimits, skip \in QuerySkips, sort_by \in QuerySorts :
          \/ S3_read_all_users_query(limit, skip, sort_by)
          \/ S5_read_all_users_query(limit, skip, sort_by)
          \/ S6_read_all_users_query(limit, skip, sort_by)
          \/ A3_read_all_users_query(skip, limit, sort_by)
          \/ \E token \in Bearers : A6_read_all_users_query(token, skip, limit, sort_by)
    \/ \E user_id \in TokenUserIds : S3_delete_user(user_id) \/ A3_delete_user(user_id)
    \/ \E token \in Bearers, user_id \in TokenUserIds :
          \/ S5_delete_user(token, user_id) \/ S6_delete_user(token, user_id)
          \/ A6_delete_user(token, user_id)

SpecQueries == QueriesInit /\ [][QueriesNext]_vars

---------------------------------------------------------------------------
(* The handlers when the store raises *)

\* A request whose handler reaches a call on db.users that raises (the
\* server is unreachable): the answer of each route. Requests answered
\* before the first store call are those of the routes themselves.

\* SyncDB Level2: read_each_user and delete_item make the call inside the
\* try whose bare except answers 400 "Invalid user ID"; the other routes let
\* the error through (500).
S2_store_raises(handler, user_id, body) ==
    /\ module = "S2"
    /\ \/ /\ handler = "read_all_users"
          /\ user_id = "" /\ body = <<>>
          /\ resp' = HTTPException(500)
       \/ /\ handler = "read_each_user"
          /\ body = <<>> /\ IsObjectId(user_id)
          /\ resp' = HTTPException(400)
       \/ /\ handler = "create_user"
          /\ user_id = "" /\ S2_UserCreateModel_ok(body)
          /\ resp' = HTTPException(500)
       \/ /\ handler = "update_user"
          /\ IsObjectId(user_id) /\ S2_update_data(body) # <<>>
          /\ resp' = HTTPException(500)
       \/ /\ handler = "delete_user"
          /\ body = <<>> /\ IsObjectId(user_id)
          /\ resp' = HTTPException(400)
    /\ req' = Request(handler, "", user_id, body)
    /\ UNCHANGED <<module, users, nextId, tokens, now, issued, calls, file, mode>>

\* SyncDB Level3: validate_object_id is the only try; every store call is
\* outside it (500).
S3_store_raises(handler, user_id, body) ==
    /\ module = "S3"
    /\ \/ /\ handler = "read_all_users"
          /\ user_id = "" /\ body = <<>>
          /\ resp' = HTTPException(500)
       \/ /\ handler = "read_each_user"
          /\ body = <<>> /\ S3_validate_object_id(user_id)
          /\ resp' = HTTPException(500)
       \/ /\ handler = "create_user"
          /\ user_id = "" /\ S3_UserCreateModel_ok(body)
          /\ resp' = HTTPException(500)
       \/ /\ handler = "update_user"
          /\ S3_UserUpdateModel_ok(body) /\ S3_validate_object_id(user_id) /\ S3_update_data(body) # <<>>
          /\ resp' = HTTPException(500)
       \/ /\ handler = "delete_user"
          /\ body = <<>> /\ S3_validate_object_id(user_id)
          /\ resp' = HTTPException(500)
    /\ req' = Request(handler, "", user_id, body)
    /\ UNCHANGED <<module, users, nextId, tokens, now, issued, calls, file, mode>>

\* AsyncDB Level3: each try holds ObjectId(user_id) alone; every store call
\* is outside it (500).
A3_store_raises(handler, user_id, body) ==
    /\ module = "A3"
    /\ \/ /\ handler = "read_all_users"
          /\ user_id = "" /\ body = <<>>
          /\ resp' = HTTPException(500)
       \/ /\ handler = "read_each_user"
          /\ body = <<>> /\ IsObjectId(user_id)
          /\ resp' = HTTPException(500)
       \/ /\ handler = "create_user"
          /\ user_id = "" /\ A3_UserCreateModel_ok(body)
          /\ resp' = HTTPException(500)
       \/ /\ handler = "update_user"
          /\ IsObjectId(user_id) /\ A3_update_data(body) # <<>>
          /\ resp' = HTTPException(500)
       \/ /\ handler = "delete_user"
          /\ body = <<>> /\ IsObjectId(user_id)
          /\ resp' = HTTPException(500)
    /\ req' = Request(handler, "", user_id, body)
    /\ UNCHANGED <<module, users, nextId, tokens, now, issued, calls, file, mode>>

OutageHandlers ==
    {"read_all_users", "read_each_user", "create_user", "update_user", "delete_user"}

OutageInit == Init /\ module \in {"S2", "S3", "A3"}

OutageNext ==
    \/ S2_Next \/ S3_Next \/ A3_Next
    \/ \E handler \in OutageHandlers, user_id \in UserIds \cup {""},
          body \in CreateBodies \cup UpdateBodies :
          \/ S2_store_raises(handler, user_id, body)
          \/ S3_store_raises(handler, user_id, body)
          \/ A3_store_raises(handler, user_id, body)

SpecOutage == OutageInit /\ [][OutageNext]_vars

---------------------------------------------------------------------------
(* The Level 6 modules while roles change *)

\* Bodies sent to the create and update routes: a complete and an empty
\* create body; updates of the role, of the username, and of nothing.
RoleCreateBodies == {[username |-> "bob", userage |-> 2, password |-> "secret1"], <<>>}
RoleUpdateBodies == {[role |-> "user"], [role |-> "admin"], [username |-> "alice"], <<>>}

\* The role of a stored document written by another client of the database:
\* db.users is a collection of the MongoDB server, and AsyncDB Level6 has no
\* route that writes a role after create_user.
A6_role_written(id, role) ==
    /\ module = "A6"
    /\ matched_count(users, id) # 0
    /\ users' = update_one(users, id, [role |-> role])
    /\ req' = Request("none", "", ObjectIdStr(id), [role |-> role])
    /\ resp' = Response(0, FALSE, {})
    /\ UNCHANGED <<module, nextId, tokens, now, issued, calls, file, mode>>

RolesInit == Init /\ module \in {"S6", "A6"}

RolesNext ==
    \/ \E username \in Usernames :
          \/ S6_login_signed(username, "secret1", TRUE)
          \/ A6_login_signed(username, "secret1", TRUE)
    \/ \E id \in 1 .. MaxId, role \in RolesIn : A6_role_written(id, role)
    \/ \E token \in Bearers, body \in RoleCreateBodies :
          S6_create_user(token, body) \/ A6_create_user(token, body)
    \/ \E token \in Bearers, user_id \in TokenUserIds, body \in RoleUpdateBodies :
          S6_update_user(token, user_id, body) \/ A6_update_user(token, user_id, body)
    \/ \E token \in Bearers, user_id \in TokenUserIds :
          S6_delete_user(token, user_id) \/ A6_delete_user(token, user_id)

SpecRoles == RolesInit /\ [][RolesNext]_vars

---------------------------------------------------------------------------
(* SyncDB Level5 and Level6 with the history of signed tokens *)

IssuedInit == Init /\ module \in {"S5", "S6"}

IssuedNext ==
    \/ \E username \in Usernames :
          \/ S5_login_signed(username, "secret1", TRUE)
          \/ S6_login_signed(username, "secret1", TRUE)
    \/ \E token \in Bearers, body \in RoleCreateBodies :
          S5_create_user(token, body) \/ S6_create_user(token, body)
    \/ \E token \in Bearers, user_id \in TokenUserIds, body \in RoleUpdateBodies :
          S5_update_user(token, user_id, body) \/ S6_update_user(token, user_id, body)
    \/ \E token \in Bearers, user_id \in TokenUserIds :
          S5_delete_user(token, user_id) \/ S6_delete_user(token, user_id)

SpecIssued == IssuedInit /\ [][IssuedNext]_vars

---------------------------------------------------------------------------
(* The Level 6 modules with requests in flight *)

\* update_user makes two calls on the store, update_one and then find_one;
\* another request can be served between the two (SyncDB handlers run in
\* the thread pool, AsyncDB handlers yield at each await). The requests
\* answered before find_one are those of update_user itself.

\* update_user of SyncDB Level6 up to update_one, which matched a document.
S6_update_user_begin(token, user_id, body) ==
    /\ module = "S6"
    /\ Cardinality(calls) < MaxCalls
    /\ \E current_user \in S6_get_current_user(token) :
          /\ S6_admin_required(current_user)
          /\ S6_UserUpdateModel_ok(body)
          /\ IsObjectId(user_id)
          /\ S6_update_data(body) # <<>>
          /\ matched_count(users, ObjectId(user_id)) # 0
          /\ users' = update_one(users, ObjectId(user_id), S6_update_data(body))
          /\ calls' = calls \cup {[handler |-> "update_user", caller |-> current_user._id,
                                   user_id |-> user_id, body |-> body]}
    /\ UNCHANGED <<module, nextId, tokens, now, req, resp, issued, file, mode>>

\* update_user of SyncDB Level6 from find_one on: serialize_user(None)
\* raises TypeError when the document is gone (500).
S6_update_user_end(call) ==
    /\ module = "S6"
    /\ call \in calls /\ call.handler = "update_user"
    /\ calls' = calls \ {call}
    /\ req' = Request("update_user", call.caller, call.user_id, call.body)
    /\ resp' = IF find_by_id(users, ObjectId(call.user_id)) = {}
               THEN HTTPException(500)
               ELSE Response(200, TRUE,
                       {S6_serialize_user(u) : u \in find_by_id(users, ObjectId(call.user_id))})
    /\ UNCHANGED <<module, users, nextId, tokens, now, issued, file, mode>>

\* update_user of AsyncDB Level6 up to `await db.users.update_one`, which
\* matched a document.
A6_update_user_begin(token, user_id, body) ==
    /\ module = "A6"
    /\ Cardinality(calls) < MaxCalls
    /\ \E current_user \in A6_get_current_user(token) :
          /\ IsObjectId(user_id)
          /\ A6_update_data(body) # <<>>
          /\ \/ A6_require_admin(current_user)
             \/ ObjectIdStr(ObjectId(user_id)) = ObjectIdStr(current_user._id)
          /\ matched_count(users, ObjectId(user_id)) # 0
          /\ users' = update_one(users, ObjectId(user_id), A6_update_data(body))
          /\ calls' = calls \cup {[handler |-> "update_user",
                                   caller |-> ObjectIdStr(current_user._id),
                                   user_id |-> user_id, body |-> body]}
    /\ UNCHANGED <<module, nextId, tokens, now, req, resp, issued, file, mode>>

\* update_user of AsyncDB Level6 from `await db.users.find_one` on:
\* serialize_user(None) raises TypeError when the document is gone (500).
A6_update_user_end(call) ==
    /\ module = "A6"
    /\ call \in calls /\ call.handler = "update_user"
    /\ calls' = calls \ {call}
    /\ req' = Request("update_user", call.caller, call.user_id, call.body)
    /\ resp' = IF find_by_id(users, ObjectId(call.user_id)) = {}
               THEN HTTPException(500)
               ELSE Response(200, TRUE,
                       {A6_serialize_user(u) : u \in find_by_id(users, ObjectId(call.user_id))})
    /\ UNCHANGED <<module, users, nextId, tokens, now, issued, file, mode>>

InFlightInit == Init /\ module \in {"S6", "A6"}

InFlightNext ==
    \/ \E username \in Usernames :
          S6_login(username, "secret1") \/ A6_login(username, "secret1")
    \/ \E token \in Bearers, user_id \in TokenUserIds, body \in TokenUpdateBodies :
          \/ S6_update_user_begin(token, user_id, body)
          \/ A6_update_user_begin(token, user_id, body)
          \/ (calls = {} /\ S6_update_user(token, user_id, body))
          \/ (calls = {} /\ A6_update_user(token, user_id, body))
    \/ \E call \in calls : S6_update_user_end(call) \/ A6_update_user_end(call)
    \/ \E token \in Bearers, user_id \in TokenUserIds :
          S6_delete_user(token, user_id) \/ A6_delete_user(token, user_id)

SpecInFlight == InFlightInit /\ [][InFlightNext]_vars

---------------------------------------------------------------------------
(* API-Development/Part-1 [ItemManager]: main.py and utils.py *)

\* The service keeps its items in one JSON file, Items.json: a dict from
\* item_id to the item. Its handlers are `def` routes, which FastAPI runs in
\* a thread pool: each reads the whole file, changes the dict it read, and
\* writes the whole file, and the requests of other threads are served in
\* between. A handler in flight holds the dict it is about to write.

FILENAME == "Items.json"

\* Names sent as item_name, bodies of POST and PUT (a body without
\* item_name parses to None in ItemUpdate), and item_id path parameters.
ItemNames  == {"pen", "ink"}
ItemBodies == {[item_name |-> n] : n \in ItemNames} \cup {<<>>}
ItemIds    == {"item1", "item2", "item9"}

\* str(uuid.uuid4()): an id no item has yet.
uuid4 == "item" \o ToString(nextId)

\* readJSON: the dict of the file ({} for a missing or unparsable file, as
\* the empty file here), or HTTPException(403) on PermissionError.
readJSON(filename) ==
    IF "r" \in mode THEN [raised |-> 0, data |-> file]
                    ELSE [raised |-> 403, data |-> <<>>]

\* writeJSON: the file holds new_data, or HTTPException(403) on
\* PermissionError and the file is as it was.
writeJSON(filename, new_data) ==
    IF "w" \in mode THEN [raised |-> 0, file |-> new_data]
                    ELSE [raised |-> 403, file |-> file]

\* The dict d with d[k] = v.
SetItem(d, k, v) == [j \in DOMAIN d \cup {k} |-> IF j = k THEN v ELSE d[j]]

\* The dict d after del d[k].
DelItem(d, k) == [j \in DOMAIN d \ {k} |-> d[j]]

\* The permissions of Items.json change (chmod by the operator of the host).
chmod(m) ==
    /\ module = "IM"
    /\ mode' = m
    /\ UNCHANGED <<module, users, nextId, tokens, now, req, resp, issued, calls, file>>

\* GET /items: every exception, the HTTPException of readJSON included, is
\* caught by `except Exception` and answered 500.
get_all_items ==
    /\ module = "IM"
    /\ req' = Request("get_all_items", "", "", <<>>)
    /\ resp' = IF readJSON(FILENAME).raised # 0 THEN HTTPException(500)
               ELSE Response(200, TRUE, {readJSON(FILENAME).data})
    /\ UNCHANGED <<module, users, nextId, tokens, now, issued, calls, file, mode>>

\* POST /items up to `data[item_id] = {...}`: 422 for a body without
\* item_name; the HTTPException of readJSON is caught by `except Exception`
\* (500).
create_item_read(body) ==
    /\ module = "IM"
    /\ IF "item_name" \notin DOMAIN body
       THEN /\ req' = Request("create_item", "", "", body)
            /\ resp' = RequestValidationError
            /\ UNCHANGED <<calls, nextId>>
       ELSE IF readJSON(FILENAME).raised # 0
       THEN /\ req' = Request("create_item", "", "", body)
            /\ resp' = HTTPException(500)
            /\ UNCHANGED <<calls, nextId>>
       ELSE /\ nextId <= MaxId /\ Cardinality(calls) < MaxCalls
            /\ calls' = calls \cup
                  {[handler |-> "create_item", item_id |-> uuid4, body |-> body,
                    data |-> SetItem(readJSON(FILENAME).data, uuid4,
                                [item_name |-> body.item_name, created_time |-> now])]}
            /\ nextId' = nextId + 1
            /\ UNCHANGED <<req, resp>>
    /\ UNCHANGED <<module, users, tokens, now, issued, file, mode>>

\* POST /items from writeJSON on: 201 with the item_id; the HTTPException
\* of writeJSON is caught by `except Exception` (500).
create_item_write(call) ==
    /\ module = "IM"
    /\ call \in calls /\ call.handler = "create_item"
    /\ calls' = calls \ {call}
    /\ req' = Request("create_item", "", call.item_id, call.body)
    /\ file' = writeJSON(FILENAME, call.data).file
    /\ resp' = IF writeJSON(FILENAME, call.data).raised # 0 THEN HTTPException(500)
               ELSE Response(201, TRUE, {[item_id |-> call.item_id]})
    /\ UNCHANGED <<module, users, nextId, tokens, now, issued, mode>>

\* The test of item_name that comes before the test of item_id.
update_item_raises_name_first(data, item_id, body) ==
    IF "item_name" \notin DOMAIN body THEN 400
    ELSE IF item_id \notin DOMAIN data THEN 404
    ELSE 0

\* What update_item raises on the dict it read: 404 for an item_id that is
\* not in it, then 400 for a body with no item_name.
update_item_raises(data, item_id, body) ==
    IF item_id \notin DOMAIN data THEN 404
    ELSE IF "item_name" \notin DOMAIN body THEN 400
    ELSE 0

\* PUT /items/{item_id} up to `data[item_id]["updated_time"] = ...`: an
\* HTTPException (403 of readJSON, 404, 400) is raised again as it is.
update_item_read(item_id, body) ==
    /\ module = "IM"
    /\ IF readJSON(FILENAME).raised # 0
       THEN /\ req' = Request("update_item", "", item_id, body)
            /\ resp' = HTTPException(readJSON(FILENAME).raised)
            /\ UNCHANGED calls
       ELSE IF update_item_raises(readJSON(FILENAME).data, item_id, body) # 0
       THEN /\ req' = Request("update_item", "", item_id, body)
            /\ resp' = HTTPException(
                          update_item_raises(readJSON(FILENAME).data, item_id, body))
            /\ UNCHANGED calls
       ELSE /\ Cardinality(calls) < MaxCalls
            /\ LET data == readJSON(FILENAME).data
               IN calls' = calls \cup
                     {[handler |-> "update_item", item_id |-> item_id, body |-> body,
                       data |-> SetItem(data, item_id,
                                   SetItem(SetItem(data[item_id], "item_name", body.item_name),
                                           "updated_time", now))]}
            /\ UNCHANGED <<req, resp>>
    /\ UNCHANGED <<module, users, nextId, tokens, now, issued, file, mode>>

\* PUT /items/{item_id} from writeJSON on: 200 with a message only; the
\* HTTPException of writeJSON is raised again as it is (403).
update_item_write(call) ==
    /\ module = "IM"
    /\ call \in calls /\ call.handler = "update_item"
    /\ calls' = calls \ {call}
    /\ req' = Request("update_item", "", call.item_id, call.body)
    /\ file' = writeJSON(FILENAME, call.data).file
    /\ resp' = IF writeJSON(FILENAME, call.data).raised # 0
               THEN HTTPException(writeJSON(FILENAME, call.data).raised)
               ELSE Response(200, TRUE, {})
    /\ UNCHANGED <<module, users, nextId, tokens, now, issued, mode>>

\* DELETE /items/{item_id} up to `del data[item_id]`: an HTTPException (403
\* of readJSON, 404) is raised again as it is.
delete_item_read(item_id) ==
    /\ module = "IM"
    /\ IF readJSON(FILENAME).raised # 0
       THEN /\ req' = Request("delete_item", "", item_id, <<>>)
            /\ resp' = HTTPException(readJSON(FILENAME).raised)
            /\ UNCHANGED calls
       ELSE IF item_id \notin DOMAIN readJSON(FILENAME).data
       THEN /\ req' = Request("delete_item", "", item_id, <<>>)
            /\ resp' = HTTPException(404)
            /\ UNCHANGED calls
       ELSE /\ Cardinality(calls) < MaxCalls
            /\ calls' = calls \cup
                  {[handler |-> "delete_item", item_id |-> item_id, body |-> <<>>,
                    data |-> DelItem(readJSON(FILENAME).data, item_id)]}
            /\ UNCHANGED <<req, resp>>
    /\ UNCHANGED <<module, users, nextId, tokens, now, issued, file, mode>>

\* DELETE /items/{item_id} from writeJSON on: 204; the HTTPException of
\* writeJSON is raised again as it is (403).
delete_item_write(call) ==
    /\ module = "IM"
    /\ call \in calls /\ call.handler = "delete_item"
    /\ calls' = calls \ {call}
    /\ req' = Request("delete_item", "", call.item_id, <<>>)
    /\ file' = writeJSON(FILENAME, call.data).file
    /\ resp' = IF writeJSON(FILENAME, call.data).raised # 0
               THEN HTTPException(writeJSON(FILENAME, call.data).raised)
               ELSE Response(204, TRUE, {})
    /\ UNCHANGED <<module, users, nextId, tokens, now, issued, mode>>

\* The service started on a host with no Items.json yet.
ItemsInit ==
    /\ module = "IM"
    /\ users = {}
    /\ nextId = 1
    /\ tokens = {}
    /\ now = 0
    /\ req = Request("none", "", "", <<>>)
    /\ resp = Response(0, FALSE, {})
    /\ issued = {}
    /\ calls = {}
    /\ file = <<>>
    /\ mode = {"r", "w"}

ItemsNext ==
    \/ \E m \in SUBSET {"r", "w"} : chmod(m)
    \/ get_all_items
    \/ \E body \in ItemBodies : create_item_read(body)
    \/ \E item_id \in ItemIds, body \in ItemBodies : update_item_read(item_id, body)
    \/ \E item_id \in ItemIds : delete_item_read(item_id)
    \/ \E call \in calls :
          \/ create_item_write(call)
          \/ update_item_write(call)
          \/ delete_item_write(call)

SpecItems == ItemsInit /\ [][ItemsNext]_vars

---------------------------------------------------------------------------
(* Vocabulary of the properties *)

Level6 == {"S6", "A6"}

\* The modules whose list route takes skip, limit and sort_by.
Paginated == {"S3", "S5", "S6", "A3", "A6"}

\* The step is a GET /users/ sent with these query parameters.
ListedWith(limit, skip, sort_by) ==
    \/ S3_read_all_users_query(limit, skip, sort_by)
    \/ S5_read_all_users_query(limit, skip, sort_by)
    \/ S6_read_all_users_query(limit, skip, sort_by)
    \/ A3_read_all_users_query(skip, limit, sort_by)
    \/ \E token \in Bearers : A6_read_all_users_query(token, skip, limit, sort_by)

\* The value a query parameter stands for under the documented default.
Effective(given, default) == IF given = {} THEN default ELSE CHOOSE v \in given : TRUE

\* The number of records of a page of n records after skip, at most limit.
PageSize(n, skip, limit) ==
    IF n - skip <= 0 THEN 0 ELSE IF n - skip < limit THEN n - skip ELSE limit

\* The step is an admin-gated request sent with token: a create, a delete,
\* or an update (in AsyncDB Level6, of a record other than the token's).
AdminGated(token, id, user_id, body) ==
    \/ S6_create_user(token, body) \/ A6_create_user(token, body)
    \/ S6_delete_user(token, user_id) \/ A6_delete_user(token, user_id)
    \/ S6_update_user(token, user_id, body)
    \/ A6_update_user(token, user_id, body) /\ user_id # ObjectIdStr(id)

\* The step is the write of call, answered with a success.
Acknowledged(call) ==
    /\ \/ create_item_write(call) \/ update_item_write(call) \/ delete_item_write(call)
    /\ resp'.status \in {200, 201, 204}

\* The step is a request that reads Items.json, or the write of a call.
ItemRead(item_id, body) ==
    \/ get_all_items
    \/ create_item_read(body) /\ "item_name" \in DOMAIN body
    \/ update_item_read(item_id, body)
    \/ delete_item_read(item_id)

ItemWrite(call) ==
    create_item_write(call) \/ update_item_write(call) \/ delete_item_write(call)

\* The sort_by values the list routes are documented to accept.
SortAllowList == {"username", "age"}

\* The stored record u has the role admin.
StoredAdmin(u) == "role" \in DOMAIN u /\ u.role = "admin"

\* The records of U whose _id has the string form id.
RecordsOf(U, id) == {u \in U : ObjectIdStr(u._id) = id}

\* Request r was authenticated, as a record of U that is not an admin.
NonAdminCaller(r, U) ==
    /\ r.caller # ""
    /\ \A u \in RecordsOf(U, r.caller) : ~StoredAdmin(u)

\* Request r is a self-service update: a non-admin updating their own record.
SelfServiceUpdate(r, U) ==
    /\ NonAdminCaller(r, U)
    /\ \/ r.handler = "update_self"
       \/ r.handler = "update_user" /\ r.user_id = r.caller

\* Every record of U is in V with the same role.
RolesKept(U, V) == \A u \in U : \E v \in V : v._id = u._id /\ v.role = u.role

\* The modules that store passwords.
PasswordModules == {"S5", "S6", "A4", "A6"}

\* id is the string form of an ObjectId.
WellFormedId(id) == \E n \in ObjectIds : id = "oid" \o ToString(n)

\* Request r comes from a caller the module lets create users, with the
\* fields create requires: any authenticated caller in SyncDB Level5, an
\* admin in SyncDB Level6.
CreateAccepted(r, U) ==
    /\ r.caller # ""
    /\ module = "S6" => \E u \in RecordsOf(U, r.caller) : StoredAdmin(u)
    /\ {"username", "userage", "password"} \subseteq r.fields

\* Request r comes from a caller the module lets delete users: anyone in
\* the modules without authentication, any authenticated caller in SyncDB
\* Level5 and AsyncDB Level4, an admin in the Level 6 modules.
DeleteAllowed(r, U) ==
    CASE module \in {"S5", "A4"} -> r.caller # ""
      [] module \in Level6 ->
            r.caller # "" /\ \E u \in RecordsOf(U, r.caller) : StoredAdmin(u)
      [] OTHER -> TRUE

\* Request r has the caller an admin of U.
AdminCaller(r, U) ==
    r.caller # "" /\ \E u \in RecordsOf(U, r.caller) : StoredAdmin(u)

\* Request r comes from a caller the module lets read the record r.user_id:
\* anyone where the route is public, any authenticated caller in AsyncDB
\* Level4, the record's owner or an admin in AsyncDB Level6.
ReadAllowed(r, U) ==
    CASE module = "A4" -> r.caller # ""
      [] module = "A6" -> AdminCaller(r, U) \/ (r.caller # "" /\ r.user_id = r.caller)
      [] OTHER -> TRUE

\* Request r comes from a caller the module lets update the record
\* r.user_id: anyone in the modules without authentication, any authenticated
\* caller in SyncDB Level5 and AsyncDB Level4, an admin in SyncDB Level6, the
\* record's owner or an admin in AsyncDB Level6.
UpdateAllowed(r, U) ==
    CASE module \in {"S5", "A4"} -> r.caller # ""
      [] module = "S6" -> AdminCaller(r, U)
      [] module = "A6" -> AdminCaller(r, U) \/ (r.caller # "" /\ r.user_id = r.caller)
      [] OTHER -> TRUE

\* Request r comes from a caller allowed to run its handler on r.user_id.
Authorized(r, U) ==
    CASE r.handler = "read_each_user" -> ReadAllowed(r, U)
      [] r.handler = "update_user" -> UpdateAllowed(r, U)
      [] r.handler = "delete_user" -> DeleteAllowed(r, U)
      [] OTHER -> FALSE

\* The fields an update of the module can change.
UpdatableFields ==
    (StoredFields(module) \ {"_id"}) \ (IF module = "A6" THEN {"role"} ELSE {})

\* What a verified token is: signed with SECRET_KEY, not expired, with a
\* subject, the subject that of a record of U (its username in the SyncDB
\* modules, the string of its _id in the AsyncDB modules).
TokenVerifies(token, U) ==
    /\ token \in tokens /\ token.sig = "ok"
    /\ token.exp >= now
    /\ "sub" \in DOMAIN token
    /\ \E u \in U :
          token.sub = (IF module \in {"S5", "S6"} THEN u.username ELSE ObjectIdStr(u._id))

\* jwt.decode rejects the token as expired.
Expired(token) == token.exp < now

\* get_current_user of the module returns a user for the token.
Accepted(token) ==
    CASE module = "S5" -> S5_get_current_user(token) # {}
      [] module = "S6" -> S6_get_current_user(token) # {}
      [] module = "A4" -> A4_get_current_user(token) # {}
      [] module = "A6" -> A6_get_current_user(token) # {}
      [] OTHER -> FALSE

\* What POST /login can answer for username and password over the records
\* U: 200 for a record of that username whose stored hash is that of the
\* password, 401 for a record of that username with another password, and
\* 401 when no record has the username.
LoginAnswers(U, username, password) ==
    IF \A u \in U : u.username # username THEN {401}
    ELSE {IF u.password = "$2b$" \o password THEN 200 ELSE 401 :
             u \in {v \in U : v.username = username}}

\* A login of any module.
AnyLogin(username, password) ==
    \/ S5_login(username, password) \/ S6_login(username, password)
    \/ A4_login(username, password) \/ A6_login(username, password)

\* A create_user of any module that stores passwords.
AnyPasswordCreate(token, body) ==
    \/ S5_create_user(token, body) \/ S6_create_user(token, body)
    \/ A4_create_user(body) \/ A6_create_user(token, body)

\* An update_user of any module that stores passwords.
AnyPasswordUpdate(token, user_id, body) ==
    \/ S5_update_user(token, user_id, body)
    \/ S6_put(<<"users", user_id>>, token, body)
    \/ A4_update_user(token, user_id, body)
    \/ A6_update_user(token, user_id, body)

\* Over the records U, /login with username answers 200 for password and 401
\* for every other password.
OnlyPasswordOf(U, username, password) ==
    /\ LoginAnswers(U, username, password) = {200}
    /\ \A q \in (PasswordsIn \cup {"wrong00"}) \ {password} :
          LoginAnswers(U, username, q) = {401}

\* Record u meets the constraints of the validators: a username of at
\* least three characters, a positive age, and where roles are stored a role
\* that is user or admin.
ValidRecord(u) ==
    /\ Len(u.username) >= 3
    /\ u.userage > 0
    /\ "role" \in DOMAIN u => u.role \in {"user", "admin"}

\* Request r is a GET /users/ kept with its query.
Listing(r) == r.handler = "read_all_users" /\ "query" \in DOMAIN r

\* Listed record a is not after listed record b under the sort of query q.
NotAfter(a, b, q) ==
    IF q.sort_by = "username"
    THEN IF q.direction = 1 THEN StrRank(a.username) <= StrRank(b.username)
                            ELSE StrRank(a.username) >= StrRank(b.username)
    ELSE IF q.direction = 1 THEN a.userage <= b.userage ELSE a.userage >= b.userage

\* The statuses of a rejected request.
ErrorStatuses == {400, 401, 403, 404, 422}

---------------------------------------------------------------------------
(* The properties *)

\* C1: in the Level 6 modules, a self-service update (update_self of SyncDB
\* Level6, update_user on the caller's own id in AsyncDB Level6) whose
\* payload carries a role field never changes the role stored for any
\* record.
C1_SelfUpdateKeepsRole ==
    [][(module \in Level6 /\ SelfServiceUpdate(req', users) /\ "role" \in req'.fields)
          => RolesKept(users, users')]_vars

\* C2: in the modules that store passwords, no response body holds a
\* password field or the stored password hash of a record.
C2_NoPasswordInResponse ==
    module \in PasswordModules =>
        \A d \in resp.data :
            /\ "password" \notin DOMAIN d
            /\ \A k \in DOMAIN d \ {"userage", "exp"} :
                  \A u \in users : d[k] # u.password

\* An update that set a password was answered with the updated user.
C2_Witness ==
    /\ module \in PasswordModules
    /\ req.handler = "update_user" /\ "password" \in req.fields
    /\ resp.status = 200
    /\ \E d \in resp.data : d._id = req.user_id
    /\ \E u \in users : ObjectIdStr(u._id) = req.user_id /\ "password" \in DOMAIN u

\* C3: in the Level 6 modules, DELETE /users/{id} from an authenticated
\* caller who is not an admin is answered 403 and removes no record, also
\* when the id is the caller's own.
C3_NonAdminDeleteForbidden ==
    [][(module \in Level6 /\ req'.handler = "delete_user" /\ NonAdminCaller(req', users))
          => (resp'.status = 403 /\ users' = users)]_vars

\* A non-admin's DELETE of their own record was answered 403.
C3_Witness ==
    /\ module \in Level6
    /\ req.handler = "delete_user"
    /\ req.caller # "" /\ req.user_id = req.caller
    /\ \E u \in RecordsOf(users, req.caller) : ~StoredAdmin(u)
    /\ resp.status = 403

\* C4: in the Level 6 modules, an update a non-admin caller aims at the id of
\* another user's record is denied (403) and changes no record.
C4_NonAdminUpdateOfOtherDenied ==
    [][(/\ module \in Level6
        /\ req'.handler = "update_user"
        /\ NonAdminCaller(req', users)
        /\ req'.user_id # req'.caller
        /\ RecordsOf(users, req'.user_id) # {})
          => (resp'.status = 403 /\ users' = users)]_vars

\* C4, the part about the store alone: no request of a non-admin caller
\* changes, adds or removes a record other than the caller's own.
C4_NonAdminChangesOwnOnly ==
    [][(module \in Level6 /\ NonAdminCaller(req', users))
          => /\ \A u \in users : ObjectIdStr(u._id) # req'.caller => u \in users'
             /\ \A v \in users' : ObjectIdStr(v._id) # req'.caller => v \in users]_vars

\* C5: in the Level 6 modules, POST /users/create inserts a record only for
\* an authenticated admin; an unauthenticated caller gets 401, an
\* authenticated non-admin 403, and neither inserts a record.
C5_CreateAdminOnly ==
    [][(module \in Level6 /\ req'.handler = "create_user")
          => /\ users' # users =>
                  (req'.caller # "" /\ \E u \in RecordsOf(users, req'.caller) : StoredAdmin(u))
             /\ req'.caller = "" => (resp'.status = 401 /\ users' = users)
             /\ NonAdminCaller(req', users) => (resp'.status = 403 /\ users' = users)]_vars

\* C5, the part about the store alone: create inserts only for an admin.
C5_CreateInsertsForAdminOnly ==
    [][(module \in Level6 /\ req'.handler = "create_user" /\ users' # users)
          => (req'.caller # "" /\ \E u \in RecordsOf(users, req'.caller) : StoredAdmin(u))]_vars

\* C6: in SyncDB Level6, PUT /users/me from an authenticated non-admin is
\* dispatched to update_self, not to update_user with user_id = "me".
C6_PutMeReachesUpdateSelf ==
    [][\A token \in Bearers, body \in UpdateBodies :
          (/\ module = "S6"
           /\ S6_put(<<"users", "me">>, token, body)
           /\ NonAdminCaller(req', users))
             => (req'.handler = "update_self" /\ resp'.status = 200)]_vars

\* C7: in SyncDB Level5/Level6, no two stored records have the same
\* username.
C7_UsernamesUnique ==
    module \in {"S5", "S6"} =>
        \A u, v \in users : u.username = v.username => u = v

C9_UpdateTouchesSuppliedOnly ==
    [][req'.handler = "update_user" =>
          /\ Cardinality(users') = Cardinality(users)
          /\ \A u \in users :
                IF ObjectIdStr(u._id) = req'.user_id
                THEN \E v \in users' :
                        /\ v._id = u._id
                        /\ DOMAIN v \subseteq DOMAIN u \cup req'.fields
                        /\ \A k \in DOMAIN u \ req'.fields : k \in DOMAIN v /\ v[k] = u[k]
                ELSE u \in users']_vars

\* A successful update of the userage alone, beside another record: the
\* target has the new age and the username it had.
C9_Witness ==
    /\ req.handler = "update_user" /\ req.fields = {"userage"}
    /\ resp.status = 200 /\ resp.response_status
    /\ Cardinality(users) = 2
    /\ \E u \in users :
          ObjectIdStr(u._id) = req.user_id /\ u.userage = 2 /\ u.username = "bob"

\* C10: in every module, an authorized DELETE of a well-formed identifier
\* that matches no stored record is answered 404, on every call, and
\* removes nothing.
C10_DeleteOfMissingIsNotFound ==
    [][(/\ req'.handler = "delete_user"
        /\ DeleteAllowed(req', users)
        /\ WellFormedId(req'.user_id)
        /\ RecordsOf(users, req'.user_id) = {})
          => (resp'.status = 404 /\ users' = users)]_vars

\* C11: in every module, read_each_user, update_user and delete called by
\* an authorized caller with a malformed identifier are answered 400 (never
\* 500, never a success) and leave the store as it was.
C11_MalformedIdIsBadRequest ==
    [][(/\ req'.handler \in {"read_each_user", "update_user", "delete_user"}
        /\ Authorized(req', users)
        /\ ~WellFormedId(req'.user_id))
          => (resp'.status = 400 /\ users' = users)]_vars

\* C12: in every module, read_each_user and update_user (with at least one
\* updatable field) called by an authorized caller on a well-formed
\* identifier that matches no record are answered 404.
C12_MissingRecordIsNotFound ==
    [][(/\ req'.handler \in {"read_each_user", "update_user"}
        /\ Authorized(req', users)
        /\ req'.handler = "update_user" => req'.fields \cap UpdatableFields # {}
        /\ WellFormedId(req'.user_id)
        /\ RecordsOf(users, req'.user_id) = {})
          => (resp'.status = 404 /\ users' = users)]_vars

\* C13: in AsyncDB Level6, read_each_user and update_user called by an
\* authenticated non-admin on a well-formed identifier other than the
\* caller's own are answered 403, whether or not a record has the
\* identifier and whatever the body.
C13_ForeignIdIsForbidden ==
    [][(/\ module = "A6"
        /\ req'.handler \in {"read_each_user", "update_user"}
        /\ NonAdminCaller(req', users)
        /\ WellFormedId(req'.user_id)
        /\ req'.user_id # req'.caller)
          => (resp'.status = 403 /\ users' = users)]_vars

\* C14: in SyncDB Level5/Level6 and AsyncDB Level4/Level6, a request to a
\* protected route whose bearer token does not verify (absent, not signed
\* with SECRET_KEY, expired, without a subject, or with a subject that is
\* not that of a stored record) is answered 401 and leaves the store as it
\* was.
C14_UnverifiedTokenIsUnauthorized ==
    [][\A token \in Presented :
          (ProtectedRequest(token) /\ ~TokenVerifies(token, users))
             => (resp'.status = 401 /\ users' = users)]_vars

\* C15: a token that create_access_token issued with expires_delta zero is
\* rejected as expired at every later instant.
C15_ZeroTtlTokenExpired ==
    [][(/\ req.handler = "create_access_token"
        /\ req.expires_delta = 0
        /\ now' > now)
          => \A token \in resp.data : Expired(token)']_vars

\* C16: a signed token that get_current_user accepts is accepted after
\* every step that does not take the clock past its expiry, whatever the
\* step updates or deletes.
C16_TokenWorksUntilExpiry ==
    [][\A token \in tokens :
          (Accepted(token) /\ ~Expired(token)') => Accepted(token)']_vars

\* C17: in the modules that store passwords, /login answers 200 with a
\* token exactly for a stored username and its password; after a create_user
\* that succeeded with username u and password p, /login answers 200 for
\* (u, p) and 401 for (u, q) with any other q; after an update_user that
\* succeeded with a password p2, /login of the updated record's username
\* answers 200 for p2 and 401 for every other password, the one before
\* among them.
C17_LoginFollowsPassword ==
    [][/\ \A username \in Usernames, password \in PasswordsIn \cup {"wrong00"} :
            AnyLogin(username, password) =>
               /\ resp'.status \in LoginAnswers(users, username, password)
               /\ resp'.status = 200 <=> resp'.data # {}
       /\ \A token \in Bearers, body \in PasswordCreateBodies :
            (AnyPasswordCreate(token, body) /\ resp'.status = 201)
               => OnlyPasswordOf(users', body.username, body.password)
       /\ \A token \in Bearers, user_id \in TokenUserIds, body \in PasswordUpdateBodies :
            (/\ AnyPasswordUpdate(token, user_id, body)
             /\ resp'.status = 200 /\ resp'.response_status
             /\ "password" \in DOMAIN body)
               => \A u \in RecordsOf(users', user_id) :
                     OnlyPasswordOf(users', u.username, body.password)]_vars

\* C18: in the Level 6 modules, a request answered 400, 401, 403, 404 or
\* 422 leaves the store exactly as it was.
C18_RejectedRequestKeepsStore ==
    [][(module \in Level6 /\ resp'.status \in ErrorStatuses) => users' = users]_vars

\* An update_user of an admin, with a field to write, on an identifier no
\* record has, was answered 404 over a store with records.
C18_Witness ==
    /\ module \in Level6
    /\ req.handler = "update_user" /\ AdminCaller(req, users)
    /\ req.fields \cap UpdatableFields # {}
    /\ resp.status = 404
    /\ users # {}

\* C19: in SyncDB Level3/Level5/Level6 and AsyncDB Level6, after every
\* create and update every stored record has a username of at least three
\* characters and a positive age, and in the Level 6 modules a role that is
\* user or admin; a record created with no role supplied has the role user.
C19_StoredRecordsValid ==
    [][(module \in {"S3", "S5", "S6", "A6"}) =>
          /\ \A u \in users' : ValidRecord(u)
          /\ (module \in Level6 /\ req'.handler = "create_user" /\ "role" \notin req'.fields)
                => \A u \in users' \ users : u.role = "user"]_vars

\* C20: in the Level 6 modules, when read_all_users(skip=0, limit=N) is
\* followed at once (no request between) by read_all_users(skip=N, limit=N)
\* with the same sort_by and direction, the two pages have no record in
\* common and no record of the first page is after a record of the second
\* in the sort order.
C20_PagesPartition ==
    [][(/\ Listing(req) /\ Listing(req')
        /\ resp.status = 200 /\ resp'.status = 200
        /\ req.query.skip = 0
        /\ req'.query.skip = req.query.limit
        /\ req'.query.limit = req.query.limit
        /\ req'.query.sort_by = req.query.sort_by
        /\ req'.query.direction = req.query.direction)
          => /\ resp.data \cap resp'.data = {}
             /\ \A a \in resp.data, b \in resp'.data : NotAfter(a, b, req.query)]_vars

\* C21: in every module with pagination, read_all_users answers a skip
\* below 0 or a limit below 1 with a validation error (400 or 422), takes
\* skip = 0 and limit = 10 for an omitted parameter, and a successful answer
\* holds the records of that page: never more than limit of them.
C21_PaginationValidated ==
    [][\A limit \in QueryLimits, skip \in QuerySkips, sort_by \in QuerySorts :
          (ListedWith(limit, skip, sort_by) /\ resp'.status \notin {401, 403})
             => IF Effective(skip, 0) < 0 \/ Effective(limit, 10) < 1
                THEN resp'.status \in {400, 422}
                ELSE /\ resp'.status = 200
                     /\ Cardinality(resp'.data)
                           = PageSize(Cardinality(users), Effective(skip, 0),
                                      Effective(limit, 10))]_vars

\* C22: read_all_users takes as sort_by only a field of the allow-list; a
\* request with valid paging and any other sort_by is answered with a
\* client error (InvalidSortField) and never with a sorted list.
C22_SortFieldAllowListed ==
    [][\A limit \in {{}, {1}}, skip \in {{}, {1}}, sort_by \in QuerySorts :
          (/\ ListedWith(limit, skip, sort_by)
           /\ resp'.status \notin {401, 403}
           /\ Effective(sort_by, "username") \notin SortAllowList)
             => resp'.status \in {400, 422}]_vars

\* C23: a request whose handler reaches a store call that raises is answered
\* 500 (a dependency failure), never with a client error such as 400
\* "Invalid user ID" or 404.
C23_StoreFailureIsServerError ==
    [][\A handler \in OutageHandlers, user_id \in UserIds \cup {""},
          body \in CreateBodies \cup UpdateBodies :
          (\/ S2_store_raises(handler, user_id, body)
           \/ S3_store_raises(handler, user_id, body)
           \/ A3_store_raises(handler, user_id, body)) => resp'.status = 500]_vars

\* C24: in SyncDB Level5 and Level6 a token that login signed for record R
\* authenticates as R or not at all: whatever updates, deletes and creates
\* came after, every record get_current_user returns for it has R's _id.
C24_TokenBoundToRecord ==
    module \in {"S5", "S6"} =>
       \A t \in issued :
          \A u \in (IF module = "S5" THEN S5_get_current_user(t[1])
                                     ELSE S6_get_current_user(t[1])) :
             u._id = ObjectIdStr(t[2])

\* C25: in SyncDB Level5, SyncDB Level6 and AsyncDB Level6 an empty user
\* store stays empty: no request inserts a record, every login and every
\* create_user is answered 401.
C25_EmptyStoreStaysEmpty ==
    [][(module \in {"S5", "S6", "A6"} /\ users = {})
          => /\ users' = {}
             /\ req'.handler \in {"login", "create_user"} => resp'.status = 401]_vars

\* A create_user with a complete body was sent to a store that never held
\* a record, and was answered 401.
C25_Witness ==
    /\ module \in {"S5", "S6", "A6"}
    /\ users = {} /\ nextId = 1
    /\ req.handler = "create_user" /\ req.fields = BodyFields
    /\ resp.status = 401

\* C26: in the Level 6 modules the admin check reads the role stored at
\* request time: an admin-gated request (create, update of another user,
\* delete) sent with a token that login signed for an admin whose stored
\* role is no longer admin is answered 403 (401 when the token no longer
\* authenticates).
C26_StoredRoleDecides ==
    [][\A t \in issued, user_id \in TokenUserIds,
          body \in RoleCreateBodies \cup RoleUpdateBodies :
          (/\ module \in Level6
           /\ t[3] = "admin"
           /\ find_by_id(users, t[2]) # {}
           /\ \A u \in find_by_id(users, t[2]) : ~StoredAdmin(u)
           /\ AdminGated(t[1], t[2], user_id, body)
           /\ resp'.status # 401)
             => resp'.status = 403]_vars

\* C27: in the Level 6 modules an update_user that matched its record
\* answers 200 with the updated record whatever was served between its
\* update_one and its find_one; when a delete removed the record in between
\* it answers 404 or 200, never an unhandled fault.
C27_UpdateSurvivesDelete ==
    [][\A call \in calls :
          (S6_update_user_end(call) \/ A6_update_user_end(call))
             => \/ resp'.status = 404
                \/ resp'.status = 200 /\ resp'.data # {}]_vars

\* C28: in ItemManager no acknowledged write is lost, whatever the
\* interleaving: the write of a request answered 201, 200 or 204 leaves in
\* the file, with its name, every item of another id that was there, and a
\* 201 or 200 leaves the request's own item there with the name it sent.
\* So the file holds every item created and not deleted, with the name of
\* its last successful update.
C28_NoAcknowledgedWriteLost ==
    [][\A call \in calls :
          Acknowledged(call)
             => /\ \A id \in DOMAIN file \ {call.item_id} :
                      id \in DOMAIN file' /\ file'[id].item_name = file[id].item_name
                /\ resp'.status \in {200, 201}
                      => /\ call.item_id \in DOMAIN file'
                         /\ file'[call.item_id].item_name = call.body.item_name]_vars

\* C29: in ItemManager, with a readable file, update_item and delete_item
\* of an item_id that is not in it answer 404, also when the update has no
\* item_name, and update_item of an item that is in it with no item_name
\* answers 400; in each case nothing is written, then or later.
C29_MissingItemAndEmptyBody ==
    [][\A item_id \in ItemIds, body \in ItemBodies :
          /\ (/\ update_item_read(item_id, body) \/ delete_item_read(item_id)
              /\ "r" \in mode /\ item_id \notin DOMAIN file)
                => resp'.status = 404 /\ file' = file /\ calls' = calls
          /\ (/\ update_item_read(item_id, body)
              /\ "r" \in mode /\ item_id \in DOMAIN file /\ "item_name" \notin DOMAIN body)
                => resp'.status = 400 /\ file' = file /\ calls' = calls]_vars

\* An update with no item_name of an item_id that is not in the file, which
\* holds another item, was answered 404.
C29_Witness ==
    /\ module = "IM"
    /\ req.handler = "update_item" /\ req.fields = {}
    /\ file # <<>> /\ req.user_id \notin DOMAIN file
    /\ resp.status = 404

\* C30: in ItemManager a permission-denied failure of the read or of the
\* write of Items.json is answered 403 by every endpoint.
C30_PermissionDeniedIsForbidden ==
    [][/\ \A item_id \in ItemIds, body \in ItemBodies :
             ("r" \notin mode /\ ItemRead(item_id, body)) => resp'.status = 403
       /\ \A call \in calls :
             ("w" \notin mode /\ ItemWrite(call)) => resp'.status = 403]_vars

====
